---------------------------- MODULE Spec2Model ----------------------------
(***************************************************************************)
(* A model of the MARKOV audit core: the five lexical detectors            *)
(* (agents/*_agent.py), the coordinator that runs them and aggregates      *)
(* their results (agents/coordinator_agent.py), and the reasoning layer    *)
(* (metta/metta_integration.py, metta/reasoning_engine.py).                *)
(*                                                                         *)
(* A contract source is the list of its lines (source_code.split('\n')),   *)
(* each line one of a catalogue of Solidity lines.  What a regular         *)
(* expression of the code says about a line is tabulated below, one table  *)
(* per expression: the set of catalogue lines it matches.  No catalogue    *)
(* line begins or ends inside a match, so a search of the whole source     *)
(* succeeds exactly when it succeeds on one of the lines.                  *)
(*                                                                         *)
(* Line numbers are 1-based as in the reports (Python index + 1).          *)
(***************************************************************************)
EXTENDS Integers, Sequences, FiniteSets, TLC

\* ---- source lines

\* re.search(r'\.call\{|\.delegatecall\(|\.send\(|\.transfer\(', source_code)
ReStructExternalCall ==
    {"token.call{value: amount}(data);",
     "(bool ok, ) = token.call{value: amount}(data);",
     "target.delegatecall(data);",
     "payable(owner).transfer(amount);",
     "if (x.call{gas: 5000}(data)) {"}

\* re.search(r'function\s+(withdraw|...|setAdmin)', source_code, re.IGNORECASE)
ReStructPrivileged ==
    {"function withdraw(uint amount) public {",
     "function withdraw(uint amount) public onlyOwner nonReentrant {",
     "function setFee(uint[] memory rates) external {",
     "function mint(address to) external"}

\* re.search(r'ReentrancyGuard|nonReentrant', ...)
ReGuard ==
    {"contract Vault is ReentrancyGuard, Ownable {",
     "function withdraw(uint amount) public onlyOwner nonReentrant {"}

\* re.search(r'\.call\{|\.send\(|\.transfer\(', line)
ReExternalCall ==
    {"token.call{value: amount}(data);",
     "(bool ok, ) = token.call{value: amount}(data);",
     "payable(owner).transfer(amount);",
     "if (x.call{gas: 5000}(data)) {"}

\* re.search(r'(\w+)\s*=\s*', line)
ReStateWrite ==
    {"uint256 public fee = 100;",
     "balance = balance - amount;",
     "unchecked { x = y - 1; }",
     "fee = amount / rate * scale;",
     "for (uint i = 0; i < users.length; i++) {",
     "require(tx.origin == owner);",
     "total = fee + fee + fee + fee;"}

\* re.search(r'balance|amount|shares|deposit', line, re.IGNORECASE)
ReBalanceKeyword ==
    {"function withdraw(uint amount) public {",
     "function withdraw(uint amount) public onlyOwner nonReentrant {",
     "token.call{value: amount}(data);",
     "(bool ok, ) = token.call{value: amount}(data);",
     "emit Paid(amount);",
     "balance -= amount;",
     "balance = balance - amount;",
     "unchecked { balance += amount; }",
     "unchecked { balance += amount; ++i; }",
     "fee = amount / rate * scale;",
     "payable(owner).transfer(amount);"}

\* any of ReentrancyAgent._check_pull_pattern's withdrawal_patterns
ReWithdrawalPattern ==
    {"function withdraw(uint amount) public {",
     "function withdraw(uint amount) public onlyOwner nonReentrant {"}

\* group 1 of re.search(r'function\s+(\w+)', line), the empty string when there is no match
FunctionNameOf(l) ==
    CASE l \in {"function withdraw(uint amount) public {",
     "function withdraw(uint amount) public onlyOwner nonReentrant {"} -> "withdraw"
      [] l \in {"function setFee(uint[] memory rates) external {"} -> "setFee"
      [] l \in {"function mint(address to) external"} -> "mint"
      [] OTHER -> ""

\* re.search(r'Ownable|onlyOwner', ...)
ReOwnable ==
    {"contract Vault is ReentrancyGuard, Ownable {",
     "function withdraw(uint amount) public onlyOwner nonReentrant {",
     "modifier onlyOwner() {"}

\* re.search(r'AccessControl|hasRole', ...)
ReRoleAccess ==
    {"require(hasRole(ADMIN, msg.sender));"}

\* re.search(r'tx\.origin', ...)
ReTxOrigin ==
    {"require(tx.origin == owner);"}

\* re.search(r'onlyOwner|onlyRole|onlyAdmin', line)
ReAuthModifier ==
    {"function withdraw(uint amount) public onlyOwner nonReentrant {", "modifier onlyOwner() {"}

\* re.search(r'modifier\s+(onlyOwner|onlyAdmin|onlyRole)', ...)
ReModifierDefinition ==
    {"modifier onlyOwner() {"}

\* re.search(r'import.*Ownable|import.*AccessControl', ...)
ReOzImport ==
    {}

\* the privileged_keywords k, in table order, with re.search(r'function\s+' + k, line, re.IGNORECASE)
PrivilegedKeywordsOf(l) ==
    CASE l \in {"function withdraw(uint amount) public {",
     "function withdraw(uint amount) public onlyOwner nonReentrant {"} -> <<"withdraw">>
      [] l \in {"function setFee(uint[] memory rates) external {"} -> <<"setFee">>
      [] l \in {"function mint(address to) external"} -> <<"mint">>
      [] OTHER -> <<>>

\* group 1 of re.search(r'pragma solidity\s+[\^~><=]*([0-9.]+)', ...) split at '.', <<>> when there is no match
PragmaVersionOf(l) ==
    CASE l \in {"pragma solidity ^0.7.6;"} -> <<0, 7, 6>>
      [] l \in {"pragma solidity ^0.8.20;"} -> <<0, 8, 20>>
      [] OTHER -> <<>>

\* re.search(r'using SafeMath|SafeMath\.(add|sub|mul|div)', ...)
ReSafeMath ==
    {"using SafeMath for uint256;"}

\* re.search(r'\bunchecked\s*\{', line)
ReUncheckedOpen ==
    {"unchecked { balance += amount; }",
     "unchecked { ++i; }",
     "unchecked {",
     "unchecked { x = y - 1; }",
     "unchecked { balance += amount; ++i; }"}

\* the lines _find_arithmetic_operations keeps: no comment or string, r'[+\-*/]\s*=|=\s*\w+\s*[+\-*/]' matches, no SafeMath
IsArithmeticLine ==
    {"balance -= amount;",
     "balance = balance - amount;",
     "unchecked { balance += amount; }",
     "unchecked { x = y - 1; }",
     "unchecked { balance += amount; ++i; }",
     "fee = amount / rate * scale;",
     "total = fee + fee + fee + fee;"}

\* re.search(r'\w+\s*/\s*\w+\s*\*\s*\w+', line)
RePrecisionLoss ==
    {"fee = amount / rate * scale;"}

\* any of _is_safe_unchecked_usage's safe_patterns on the lower-cased line
ReSafeUnchecked ==
    {"unchecked { ++i; }",
     "unchecked { balance += amount; ++i; }",
     "++i;",
     "for (uint i = 0; i < users.length; i++) {"}

\* any of _is_safe_unchecked_usage's unsafe_patterns on the lower-cased line
ReUnsafeUnchecked ==
    {"function withdraw(uint amount) public {",
     "function withdraw(uint amount) public onlyOwner nonReentrant {",
     "token.call{value: amount}(data);",
     "(bool ok, ) = token.call{value: amount}(data);",
     "emit Paid(amount);",
     "balance -= amount;",
     "balance = balance - amount;",
     "unchecked { balance += amount; }",
     "unchecked { balance += amount; ++i; }",
     "fee = amount / rate * scale;",
     "for (uint i = 0; i < users.length; i++) {",
     "payable(owner).transfer(amount);"}

\* re.search(r'\.call\(|\.call\{', line)
ReLowLevelCall ==
    {"token.call{value: amount}(data);",
     "(bool ok, ) = token.call{value: amount}(data);",
     "if (x.call{gas: 5000}(data)) {"}

\* any of _is_return_checked's check_patterns
ReReturnCheck ==
    {"(bool ok, ) = token.call{value: amount}(data);",
     "require(tx.origin == owner);",
     "require(hasRole(ADMIN, msg.sender));",
     "if (x.call{gas: 5000}(data)) {"}

\* re.search(r'\.transfer\(', line)
ReTransfer ==
    {"payable(owner).transfer(amount);"}

\* re.search(r'\.delegatecall\(', line)
ReDelegatecall ==
    {"target.delegatecall(data);"}

\* any of _is_user_controlled_address's unsafe_patterns
ReUserControlled ==
    {"target.delegatecall(data);", "require(hasRole(ADMIN, msg.sender));"}

\* any of _is_user_controlled_address's safe_patterns
ReTrustedTarget ==
    {"address immutable implementation;"}

\* any of ExternalCallsAgent._check_pull_pattern's withdrawal_patterns
ReClaimPattern ==
    {"function withdraw(uint amount) public {",
     "function withdraw(uint amount) public onlyOwner nonReentrant {"}

\* re.search(r'\.call\{gas:', ...)
ReGasLimit ==
    {"if (x.call{gas: 5000}(data)) {"}

\* external/public function lines with a memory parameter (_find_memory_vs_calldata)
IsMemoryParamLine ==
    {"function setFee(uint[] memory rates) external {"}

\* re.search(r'contract\s+\w+', line)
ReContractDecl ==
    {"contract Bank {", "contract Vault is ReentrancyGuard, Ownable {"}

\* _get_type_size of the state variable a line declares (_analyze_storage_packing), 0 when it declares none
StateVarSizeOf(l) ==
    CASE l \in {"address owner;", "address admin;", "address immutable implementation;"} -> 20
      [] l \in {"bool paused;"} -> 1
      [] l \in {"uint256 public fee = 100;"} -> 32
      [] OTHER -> 0

\* re.search(r'for\s*\([^;]*;\s*\w+\s*<\s*\w+\.length', line)
ReLoopLength ==
    {"for (uint i = 0; i < users.length; i++) {"}

\* re.search(r'for\s*\([^;]*;\s*[^;]*;\s*i\+\+', line)
ReLoopPostIncrement ==
    {"for (uint i = 0; i < users.length; i++) {"}

\* 'function' in line
HasFunctionWord ==
    {"function withdraw(uint amount) public {",
     "function withdraw(uint amount) public onlyOwner nonReentrant {",
     "function setFee(uint[] memory rates) external {",
     "function mint(address to) external"}

\* '{' in line
HasOpenBrace ==
    {"contract Bank {",
     "contract Vault is ReentrancyGuard, Ownable {",
     "function withdraw(uint amount) public {",
     "function withdraw(uint amount) public onlyOwner nonReentrant {",
     "function setFee(uint[] memory rates) external {",
     "token.call{value: amount}(data);",
     "(bool ok, ) = token.call{value: amount}(data);",
     "unchecked { balance += amount; }",
     "unchecked { ++i; }",
     "unchecked {",
     "unchecked { x = y - 1; }",
     "unchecked { balance += amount; ++i; }",
     "for (uint i = 0; i < users.length; i++) {",
     "modifier onlyOwner() {",
     "if (x.call{gas: 5000}(data)) {"}

\* re.findall(r'\b([a-z][a-zA-Z0-9_]*)\b', line) without the filtered keywords
IdentifiersOf(l) ==
    CASE l \in {"pragma solidity ^0.7.6;", "pragma solidity ^0.8.20;"} -> <<"pragma", "solidity">>
      [] l \in {"contract Bank {"} -> <<"contract">>
      [] l \in {"contract Vault is ReentrancyGuard, Ownable {"} -> <<"contract", "is">>
      [] l \in {"address owner;"} -> <<"address", "owner">>
      [] l \in {"address admin;"} -> <<"address", "admin">>
      [] l \in {"bool paused;"} -> <<"bool", "paused">>
      [] l \in {"uint256 public fee = 100;"} -> <<"uint256", "public", "fee">>
      [] l \in {"function withdraw(uint amount) public {"} -> <<"withdraw",
       "uint",
       "amount",
       "public">>
      [] l \in {"function withdraw(uint amount) public onlyOwner nonReentrant {"} -> <<"withdraw",
       "uint",
       "amount",
       "public",
       "onlyOwner",
       "nonReentrant">>
      [] l \in {"function setFee(uint[] memory rates) external {"} -> <<"setFee",
       "uint",
       "rates",
       "external">>
      [] l \in {"token.call{value: amount}(data);"} -> <<"token",
       "call",
       "value",
       "amount",
       "data">>
      [] l \in {"(bool ok, ) = token.call{value: amount}(data);"} -> <<"bool",
       "ok",
       "token",
       "call",
       "value",
       "amount",
       "data">>
      [] l \in {"emit Paid(amount);"} -> <<"emit", "amount">>
      [] l \in {"balance -= amount;"} -> <<"balance", "amount">>
      [] l \in {"balance = balance - amount;"} -> <<"balance", "balance", "amount">>
      [] l \in {"unchecked { balance += amount; }"} -> <<"unchecked", "balance", "amount">>
      [] l \in {"unchecked { ++i; }"} -> <<"unchecked", "i">>
      [] l \in {"unchecked {"} -> <<"unchecked">>
      [] l \in {"unchecked { x = y - 1; }"} -> <<"unchecked", "x", "y">>
      [] l \in {"unchecked { balance += amount; ++i; }"} -> <<"unchecked",
       "balance",
       "amount",
       "i">>
      [] l \in {"++i;"} -> <<"i">>
      [] l \in {"fee = amount / rate * scale;"} -> <<"fee", "amount", "rate", "scale">>
      [] l \in {"for (uint i = 0; i < users.length; i++) {"} -> <<"uint",
       "i",
       "i",
       "users",
       "length",
       "i">>
      [] l \in {"target.delegatecall(data);"} -> <<"target", "delegatecall", "data">>
      [] l \in {"require(tx.origin == owner);"} -> <<"require", "tx", "origin", "owner">>
      [] l \in {"payable(owner).transfer(amount);"} -> <<"payable", "owner", "transfer", "amount">>
      [] l \in {"total = fee + fee + fee + fee;"} -> <<"total", "fee", "fee", "fee", "fee">>
      [] l \in {"modifier onlyOwner() {"} -> <<"modifier", "onlyOwner">>
      [] l \in {"using SafeMath for uint256;"} -> <<"using", "uint256">>
      [] l \in {"require(hasRole(ADMIN, msg.sender));"} -> <<"require", "hasRole", "msg", "sender">>
      [] l \in {"address immutable implementation;"} -> <<"address", "immutable", "implementation">>
      [] l \in {"if (x.call{gas: 5000}(data)) {"} -> <<"x", "call", "gas", "data">>
      [] l \in {"function mint(address to) external"} -> <<"mint", "address", "to", "external">>
      [] OTHER -> <<>>

\* the variable name _find_constant_opportunities reports for a line, the empty string when none
ConstantCandidateOf(l) ==
    CASE l \in {"uint256 public fee = 100;"} -> "fee"
      [] l \in {"for (uint i = 0; i < users.length; i++) {"} -> "i"
      [] OTHER -> ""

\* line.count('{')
CountOpen(l) ==
    CASE l \in {"contract Bank {",
     "contract Vault is ReentrancyGuard, Ownable {",
     "function withdraw(uint amount) public {",
     "function withdraw(uint amount) public onlyOwner nonReentrant {",
     "function setFee(uint[] memory rates) external {",
     "token.call{value: amount}(data);",
     "(bool ok, ) = token.call{value: amount}(data);",
     "unchecked { balance += amount; }",
     "unchecked { ++i; }",
     "unchecked {",
     "unchecked { x = y - 1; }",
     "unchecked { balance += amount; ++i; }",
     "for (uint i = 0; i < users.length; i++) {",
     "modifier onlyOwner() {"} -> 1
      [] l \in {"if (x.call{gas: 5000}(data)) {"} -> 2
      [] OTHER -> 0

\* line.count('}')
CountClose(l) ==
    CASE l \in {"token.call{value: amount}(data);",
     "(bool ok, ) = token.call{value: amount}(data);",
     "}",
     "unchecked { balance += amount; }",
     "unchecked { ++i; }",
     "unchecked { x = y - 1; }",
     "unchecked { balance += amount; ++i; }",
     "if (x.call{gas: 5000}(data)) {"} -> 1
      [] OTHER -> 0

\* ---- finding titles
\* f"Unprotected Privileged Function: {func['name']}"
UnprotectedTitle(name) ==
    CASE name = "withdraw" -> "Unprotected Privileged Function: withdraw"
      [] name = "transferOwnership" -> "Unprotected Privileged Function: transferOwnership"
      [] name = "pause" -> "Unprotected Privileged Function: pause"
      [] name = "unpause" -> "Unprotected Privileged Function: unpause"
      [] name = "setFee" -> "Unprotected Privileged Function: setFee"
      [] name = "mint" -> "Unprotected Privileged Function: mint"
      [] name = "burn" -> "Unprotected Privileged Function: burn"
      [] name = "setAdmin" -> "Unprotected Privileged Function: setAdmin"
      [] name = "emergencyWithdraw" -> "Unprotected Privileged Function: emergencyWithdraw"
\* k in title.lower(), for the keywords _categorize_vulnerability tests
TitleKeywords(title) ==
    CASE title \in {"Reentrancy Vulnerability Detected", "REENTRANCY"} -> {"reentrancy"}
      [] title \in {"Integer Overflow/Underflow Risk"} -> {"overflow", "underflow"}
      [] title \in {"Unchecked Low-Level Call",
       "Unsafe Delegatecall to Untrusted Address",
       "Inefficient Data Location (Memory vs Calldata)"} -> {"call"}
      [] title \in {"Reentrancy via External Call"} -> {"reentrancy", "call"}
      [] title \in {"Missing Access Check on Overflow Path"} -> {"access", "overflow"}
      [] title \in {"Authorization Bypass"} -> {"authorization"}
      [] title \in {"Underflow in Gas Refund"} -> {"underflow", "gas"}
      [] title \in {"Gas-Heavy External Call"} -> {"call", "gas"}
      [] title \in {"High Gas Usage"} -> {"gas"}
      [] title \in {"Call Overflow"} -> {"overflow", "call"}
      [] title \in {"Authorization of Reentrancy Guard"} -> {"reentrancy", "authorization"}
      [] OTHER -> {}

\* ---- curated sources
SrcEmpty ==
    <<"">>
SrcVulnerable ==
    <<"pragma solidity ^0.7.6;",
     "contract Bank {",
     "function withdraw(uint amount) public {",
     "token.call{value: amount}(data);",
     "emit Paid(amount);",
     "balance -= amount;",
     "}",
     "}">>
SrcDrain ==
    <<"pragma solidity ^0.7.6;",
     "contract Bank {",
     "function withdraw(uint amount) public {",
     "token.call{value: amount}(data);",
     "emit Paid(amount);",
     "balance = balance - amount;",
     "}",
     "}">>
SrcSafe ==
    <<"pragma solidity ^0.8.20;",
     "contract Vault is ReentrancyGuard, Ownable {",
     "modifier onlyOwner() {",
     "}",
     "function withdraw(uint amount) public onlyOwner nonReentrant {",
     "(bool ok, ) = token.call{value: amount}(data);",
     "require(tx.origin == owner);",
     "}",
     "}">>
SrcGas ==
    <<"pragma solidity ^0.8.20;",
     "contract Bank {",
     "address owner;",
     "address admin;",
     "bool paused;",
     "function setFee(uint[] memory rates) external {",
     "for (uint i = 0; i < users.length; i++) {",
     "total = fee + fee + fee + fee;",
     "}",
     "}",
     "}">>
SrcMixed ==
    <<"pragma solidity ^0.8.20;",
     "contract Bank {",
     "function withdraw(uint amount) public {",
     "target.delegatecall(data);",
     "unchecked { balance += amount; }",
     "fee = amount / rate * scale;",
     "payable(owner).transfer(amount);",
     "}",
     "}">>

\* ---- helpers
Min(a, b) == IF a <= b THEN a ELSE b
Max(a, b) == IF a >= b THEN a ELSE b

\* the elements of a finite set of integers, ascending
RECURSIVE Ascending(_)
Ascending(S) ==
    IF S = {} THEN <<>>
    ELSE LET m == CHOOSE x \in S : \A y \in S : x <= y
         IN  <<m>> \o Ascending(S \ {m})

RECURSIVE Flatten(_)
Flatten(ss) ==
    IF ss = <<>> THEN <<>> ELSE Head(ss) \o Flatten(Tail(ss))

\* re.search(pattern, source_code) for a pattern tabulated as R
AnyLine(lines, R) == \E i \in 1..Len(lines) : lines[i] \in R

\* findings["checks"][name] = value
NoChecks == [k \in {} |-> TRUE]
\* variant: a check is recorded only when it passes
PutWhenTrue(m, k, v) ==
    IF v THEN [x \in DOMAIN m \cup {k} |-> IF x = k THEN v ELSE m[x]] ELSE m

\* findings["checks"][k] = v
Put(m, k, v) == [x \in DOMAIN m \cup {k} |-> IF x = k THEN v ELSE m[x]]

\* one entry of findings["issues"]: location is "Line <line>", line 0 stands
\* for the textual locations; subject is the name the description cites
Issue(sev, title, line, subject) ==
    [severity |-> sev, title |-> title, line |-> line, subject |-> subject]
\* one entry of findings["code_fixes"]
Fix(issue, line) == [issue |-> issue, line |-> line]

\* ---- MeTTaReasoner.query: the oracle's answer, or the error it raised
OracleAnswers == {"ok", "error"}
MettaQuery(answer) ==
    IF answer = "ok"
    THEN [success |-> TRUE, results |-> <<>>]
    ELSE [success |-> FALSE, error |-> "oracle error"]

\* ---- ReentrancyAgent
CheckCeiPattern(lines) ==
    \E i \in 1..Len(lines) :
        /\ lines[i] \in ReExternalCall
        /\ \E j \in Max(1, i - 5)..(i - 1) : lines[j] \in ReStateWrite

ExtractFunctionName(lines, i) ==
    LET above == {k \in 1..i : FunctionNameOf(lines[k]) # ""}
    IN  IF above = {} THEN "unknown"
        ELSE FunctionNameOf(lines[CHOOSE k \in above : \A m \in above : m <= k])

IsVulnerableCall(lines, i) ==
    /\ lines[i] \in ReExternalCall
    /\ \E j \in (i + 1)..Min(i + 4, Len(lines)) :
           lines[j] \in ReStateWrite /\ lines[j] \in ReBalanceKeyword

FindVulnerablePatterns(lines) ==
    LET at == Ascending({i \in 1..Len(lines) : IsVulnerableCall(lines, i)})
    IN  [k \in 1..Len(at) |->
            [function |-> ExtractFunctionName(lines, at[k]), line |-> at[k]]]

ReentrancyAnalyze(lines, answer) ==
    LET has_reentrancy_guard == AnyLine(lines, ReGuard)
        follows_cei == CheckCeiPattern(lines)
        vulnerable_patterns == FindVulnerablePatterns(lines)
        uses_pull_pattern == AnyLine(lines, ReWithdrawalPattern)
        c1 == Put(NoChecks, "reentrancy_guard_present", has_reentrancy_guard)
        c2 == Put(c1, "checks_effects_interactions", follows_cei)
        c3 == Put(c2, "no_state_after_call", Len(vulnerable_patterns) = 0)
        c4 == Put(c3, "uses_pull_payment", uses_pull_pattern)
        metta_result == MettaQuery(answer)
        emit == ~has_reentrancy_guard /\ Len(vulnerable_patterns) > 0
    IN  [checks |-> c4,
         issues |-> IF emit
                    THEN [k \in 1..Len(vulnerable_patterns) |->
                            Issue("high",
                             "Reentrancy Vulnerability Detected", vulnerable_patterns[k].line,
                                  vulnerable_patterns[k].function)]
                    ELSE <<>>,
         code_fixes |-> IF emit
                        THEN [k \in 1..Len(vulnerable_patterns) |->
                                Fix("Missing ReentrancyGuard", vulnerable_patterns[k].line)]
                        ELSE <<>>,
         metta_reasoning |-> metta_result]

\* ---- AccessControlAgent
\* the third column of privileged_keywords
KeywordType(k) ==
    IF k \in {"setFee", "burn"} THEN "medium" ELSE "critical"

HasModifierNear(lines, i) ==
    \E j \in i..Min(i + 2, Len(lines)) : lines[j] \in ReAuthModifier

\* _extract_function reads at most this many lines
FunctionCeiling == 50

\* variant: the scan stops only at the end of the lines
RECURSIVE FunctionFromNoCeiling(_, _, _, _, _)
FunctionFromNoCeiling(lines, start_line, i, started, brace_count) ==
    IF i > Len(lines) THEN <<>>
    ELSE LET opens == lines[i] \in HasOpenBrace
             now == started \/ opens
             opened == IF opens THEN brace_count + CountOpen(lines[i]) ELSE brace_count
             count == IF now THEN opened - CountClose(lines[i]) ELSE opened
         IN  IF now /\ count = 0 THEN <<lines[i]>>
             ELSE <<lines[i]>> \o FunctionFromNoCeiling(lines, start_line, i + 1, now, count)

\* _extract_function, the loop from line i on: every line is kept; from the
\* first line holding an opening brace on, braces are counted, and the loop
\* breaks on the line where the count is zero
RECURSIVE FunctionFrom(_, _, _, _, _)
FunctionFrom(lines, start_line, i, started, brace_count) ==
    IF i > Min(start_line + FunctionCeiling - 1, Len(lines)) THEN <<>>
    ELSE LET opens == lines[i] \in HasOpenBrace
             now == started \/ opens
             opened == IF opens THEN brace_count + CountOpen(lines[i]) ELSE brace_count
             count == IF now THEN opened - CountClose(lines[i]) ELSE opened
         IN  IF now /\ count = 0 THEN <<lines[i]>>
             ELSE <<lines[i]>> \o FunctionFrom(lines, start_line, i + 1, now, count)

ExtractFunction(lines, start_line) == FunctionFrom(lines, start_line, start_line, FALSE, 0)

FindUnprotectedPrivilegedFunctions(lines) ==
    Flatten([i \in 1..Len(lines) |->
        IF HasModifierNear(lines, i) THEN <<>>
        ELSE LET ks == PrivilegedKeywordsOf(lines[i])
             IN  [n \in 1..Len(ks) |->
                    [name |-> ks[n], type |-> KeywordType(ks[n]), line |-> i]]])

CheckModifierUsage(lines) ==
    AnyLine(lines, ReModifierDefinition) \/ AnyLine(lines, ReOzImport)

UnprotectedSeverity(func) ==
    IF func.type = "critical" THEN "high" ELSE "medium"

AccessControlAnalyze(lines, answer) ==
    LET has_ownable == AnyLine(lines, ReOwnable)
        has_access_control == AnyLine(lines, ReRoleAccess)
        unprotected_functions == FindUnprotectedPrivilegedFunctions(lines)
        has_proper_modifiers == CheckModifierUsage(lines)
        uses_tx_origin == AnyLine(lines, ReTxOrigin)
        c1 == Put(NoChecks, "has_ownership_mechanism", has_ownable)
        c2 == Put(c1, "has_role_based_access", has_access_control)
        c3 == Put(c2, "all_privileged_protected", Len(unprotected_functions) = 0)
        c4 == Put(c3, "proper_modifier_usage", has_proper_modifiers)
        c5 == Put(c4, "no_tx_origin", ~uses_tx_origin)
        metta_result == MettaQuery(answer)
        funcIssues == [k \in 1..Len(unprotected_functions) |->
                        Issue(UnprotectedSeverity(unprotected_functions[k]),
                              UnprotectedTitle(unprotected_functions[k].name),
                              unprotected_functions[k].line,
                              unprotected_functions[k].name)]
    IN  [checks |-> c5,
         issues |-> funcIssues \o
                    (IF uses_tx_origin
                     THEN <<Issue("high", "Dangerous use of tx.origin", 0, "")>> ELSE <<>>),
         code_fixes |-> [k \in 1..Len(unprotected_functions) |->
                            Fix("Missing access control", unprotected_functions[k].line)],
         metta_reasoning |-> metta_result]

\* ---- IntegerOverflowAgent
ExtractSolidityVersion(lines) ==
    LET at == {i \in 1..Len(lines) : PragmaVersionOf(lines[i]) # <<>>}
    IN  IF at = {} THEN <<>>
        ELSE PragmaVersionOf(lines[CHOOSE i \in at : \A j \in at : i <= j])

\* <<>> is the version "unknown"
CheckSafeVersion(version) ==
    IF version = <<>> THEN FALSE
    ELSE LET major == version[1]
             minor == IF Len(version) > 1 THEN version[2] ELSE 0
         IN  major > 0 \/ (major = 0 /\ minor >= 8)

BlockCeiling == 20

\* the index of the last line _extract_block appends, scanning from line i
\* with brace_count braces open
RECURSIVE BlockStop(_, _, _, _)
BlockStop(lines, start, i, brace_count) ==
    LET count == brace_count + CountOpen(lines[i]) - CountClose(lines[i])
    IN  IF (count = 0 /\ lines[i] \in HasOpenBrace)
           \/ i >= Min(start + BlockCeiling - 1, Len(lines))
        THEN i
        ELSE BlockStop(lines, start, i + 1, count)

ExtractBlock(lines, start) ==
    SubSeq(lines, start, BlockStop(lines, start, start, 0))

FindUncheckedBlocks(lines) ==
    LET at == Ascending({i \in 1..Len(lines) : lines[i] \in ReUncheckedOpen})
    IN  [k \in 1..Len(at) |-> [line |-> at[k], code |-> ExtractBlock(lines, at[k])]]

FindArithmeticOperations(lines) ==
    Ascending({i \in 1..Len(lines) : lines[i] \in IsArithmeticLine})

CheckPrecisionLoss(lines) ==
    Ascending({i \in 1..Len(lines) : lines[i] \in RePrecisionLoss})

IsSafeUncheckedUsage(block) ==
    LET has_safe == AnyLine(block.code, ReSafeUnchecked)
        has_unsafe == AnyLine(block.code, ReUnsafeUnchecked)
    IN  has_safe /\ ~has_unsafe

ReportedOperations == 3

IntegerOverflowAnalyze(lines, answer) ==
    LET version == ExtractSolidityVersion(lines)
        is_safe_version == CheckSafeVersion(version)
        uses_safe_math == AnyLine(lines, ReSafeMath)
        unchecked_blocks == FindUncheckedBlocks(lines)
        arithmetic_ops == FindArithmeticOperations(lines)
        precision_loss == CheckPrecisionLoss(lines)
        c1 == Put(NoChecks, "solidity_version_safe", is_safe_version)
        c2 == Put(c1, "uses_safe_math", uses_safe_math)
        c3 == Put(c2, "appropriate_unchecked_usage",
                  Len(unchecked_blocks) = 0 \/ is_safe_version)
        c4 == Put(c3, "arithmetic_operations_safe", is_safe_version \/ uses_safe_math)
        c5 == Put(c4, "no_precision_loss", Len(precision_loss) = 0)
        metta_result == MettaQuery(answer)
        risky == ~is_safe_version /\ ~uses_safe_math /\ Len(arithmetic_ops) > 0
        reported == SubSeq(arithmetic_ops, 1, Min(ReportedOperations, Len(arithmetic_ops)))
        overflowIssues ==
            IF risky
            THEN [k \in 1..Len(reported) |-> Issue("high",
             "Integer Overflow/Underflow Risk", reported[k], "")]
            ELSE <<>>
        unsafeBlocks ==
            IF Len(unchecked_blocks) > 0 /\ is_safe_version
            THEN SelectSeq(unchecked_blocks, LAMBDA b : ~IsSafeUncheckedUsage(b))
            ELSE <<>>
        uncheckedIssues ==
            [k \in 1..Len(unsafeBlocks) |->
                Issue("medium", "Potentially Unsafe Unchecked Block", unsafeBlocks[k].line, "")]
        precisionIssues ==
            [k \in 1..Len(precision_loss) |->
                Issue("medium",
                 "Precision Loss: Division Before Multiplication", precision_loss[k], "")]
    IN  [checks |-> c5,
         issues |-> overflowIssues \o uncheckedIssues \o precisionIssues,
         code_fixes |-> IF risky
                        THEN <<Fix("Missing overflow protection", 0),
                               Fix("Add SafeMath library", arithmetic_ops[1])>>
                        ELSE <<>>,
         metta_reasoning |-> metta_result]

\* ---- ExternalCallsAgent
IsReturnChecked(lines, call_line) ==
    \/ lines[call_line] \in ReReturnCheck
    \/ \E i \in (call_line + 1)..Min(call_line + 2, Len(lines)) :
           lines[i] \in ReReturnCheck

IsUserControlledAddress(lines, delegatecall_line) ==
    LET context == SubSeq(lines, Max(1, delegatecall_line - 3), delegatecall_line)
    IN  AnyLine(context, ReUserControlled) /\ ~AnyLine(context, ReTrustedTarget)

FindLowLevelCalls(lines) ==
    LET at == Ascending({i \in 1..Len(lines) : lines[i] \in ReLowLevelCall})
    IN  [k \in 1..Len(at) |-> [line |-> at[k], checked |-> IsReturnChecked(lines, at[k])]]

FindTransferCalls(lines) ==
    Ascending({i \in 1..Len(lines) : lines[i] \in ReTransfer})

FindDelegatecalls(lines) ==
    LET at == Ascending({i \in 1..Len(lines) : lines[i] \in ReDelegatecall})
    IN  [k \in 1..Len(at) |->
            [line |-> at[k], unsafe |-> IsUserControlledAddress(lines, at[k])]]

ExternalCallsAnalyze(lines, answer) ==
    LET low_level_calls == FindLowLevelCalls(lines)
        transfer_calls == FindTransferCalls(lines)
        delegatecalls == FindDelegatecalls(lines)
        unchecked_calls == SelectSeq(low_level_calls, LAMBDA c : ~c.checked)
        unsafe_delegatecalls == SelectSeq(delegatecalls, LAMBDA dc : dc.unsafe)
        uses_pull_pattern == AnyLine(lines, ReClaimPattern)
        has_gas_limits == AnyLine(lines, ReGasLimit)
        c1 == Put(NoChecks, "low_level_calls_checked", Len(unchecked_calls) = 0)
        c2 == Put(c1, "uses_safe_transfer", Len(transfer_calls) > 0)
        c3 == Put(c2, "safe_delegatecall_usage", Len(unsafe_delegatecalls) = 0)
        c4 == Put(c3, "uses_pull_payment_pattern", uses_pull_pattern)
        c5 == Put(c4, "has_gas_limits", has_gas_limits)
        metta_result == MettaQuery(answer)
    IN  [checks |-> c5,
         issues |-> [k \in 1..Len(unchecked_calls) |->
                        Issue("medium", "Unchecked Low-Level Call", unchecked_calls[k].line, "")]
                    \o [k \in 1..Len(unsafe_delegatecalls) |->
                        Issue("critical",
                         "Unsafe Delegatecall to Untrusted Address", unsafe_delegatecalls[k].line, "")]
                    \o (IF ~uses_pull_pattern /\ Len(transfer_calls) > 0
                        THEN <<Issue("low", "Consider Pull Payment Pattern", 0, "")>> ELSE <<>>),
         code_fixes |-> [k \in 1..Len(unchecked_calls) |->
                            Fix("Unchecked call return value", unchecked_calls[k].line)]
                        \o [k \in 1..Len(unsafe_delegatecalls) |->
                            Fix("Unsafe delegatecall", unsafe_delegatecalls[k].line)],
         metta_reasoning |-> metta_result]

\* ---- GasOptimizationAgent
FindMemoryVsCalldata(lines) ==
    Ascending({i \in 1..Len(lines) : lines[i] \in IsMemoryParamLine})

\* the sizes of state_vars: declarations below the first contract line
StateVarSizes(lines) ==
    LET decl == {i \in 1..Len(lines) : lines[i] \in ReContractDecl}
        vars == {i \in 1..Len(lines) :
                    /\ \E c \in decl : c < i
                    /\ i \notin decl
                    /\ StateVarSizeOf(lines[i]) > 0}
        at == Ascending(vars)
    IN  [k \in 1..Len(at) |-> StateVarSizeOf(lines[at[k]])]

SlotBytes == 32

\* the fill of the last storage slot after laying out sizes in order
RECURSIVE LastSlotFill(_, _)
LastSlotFill(sizes, current_slot) ==
    IF sizes = <<>> THEN current_slot
    ELSE LastSlotFill(Tail(sizes),
                      IF current_slot + Head(sizes) > SlotBytes
                      THEN Head(sizes)
                      ELSE current_slot + Head(sizes))

IsPackingOptimal(sizes) ==
    LastSlotFill(sizes, 0) <= LastSlotFill(SortSeq(sizes, LAMBDA a, b : a < b), 0)

\* _analyze_storage_packing(...)['optimal']
AnalyzeStoragePacking(lines) ==
    LET sizes == StateVarSizes(lines)
    IN  IF Len(sizes) < 2 THEN TRUE ELSE IsPackingOptimal(sizes)

\* the findings of _find_loop_inefficiencies, two tests per line
FindLoopInefficiencies(lines) ==
    Flatten([i \in 1..Len(lines) |->
        (IF lines[i] \in ReLoopLength
         THEN <<[line |-> i, title |-> "Array Length in Loop Condition", fix |-> "Array length in loop"]>>
         ELSE <<>>)
        \o (IF lines[i] \in ReLoopPostIncrement
            THEN <<[line |-> i, title |-> "Use ++i Instead of i++", fix |-> "Post-increment in loop"]>>
            ELSE <<>>)])

BodyCeiling == 100

\* the lines _extract_function_body appends, scanning from line i
RECURSIVE BodyFrom(_, _, _, _, _)
BodyFrom(lines, start, i, started, brace_count) ==
    IF i > Min(start + BodyCeiling - 1, Len(lines)) THEN <<>>
    ELSE LET now == started \/ lines[i] \in HasOpenBrace
             count == IF now
                      THEN brace_count + CountOpen(lines[i]) - CountClose(lines[i])
                      ELSE brace_count
         IN  IF now /\ count = 0 THEN <<lines[i]>>
             ELSE (IF now THEN <<lines[i]>> ELSE <<>>)
                  \o BodyFrom(lines, start, i + 1, now, count)

ExtractFunctionBody(lines, start) == BodyFrom(lines, start, start, FALSE, 0)

RedundantThreshold == 4

\* the names with RedundantThreshold or more occurrences, in order of first occurrence
RedundantNames(words) ==
    LET firsts == {k \in 1..Len(words) :
                      /\ \A m \in 1..(k - 1) : words[m] # words[k]
                      /\ Cardinality({m \in 1..Len(words) : words[m] = words[k]})
                            >= RedundantThreshold}
        at == Ascending(firsts)
    IN  [k \in 1..Len(at) |-> words[at[k]]]

FindRedundantStorageReads(lines) ==
    Flatten([i \in 1..Len(lines) |->
        IF lines[i] \in HasFunctionWord
        THEN LET func_body == ExtractFunctionBody(lines, i)
                 words == Flatten([k \in 1..Len(func_body) |-> IdentifiersOf(func_body[k])])
                 names == RedundantNames(words)
             IN  [k \in 1..Len(names) |-> [line |-> i, variable |-> names[k]]]
        ELSE <<>>])

FindConstantOpportunities(lines) ==
    LET at == Ascending({i \in 1..Len(lines) : ConstantCandidateOf(lines[i]) # ""})
    IN  [k \in 1..Len(at) |-> [line |-> at[k], name |-> ConstantCandidateOf(lines[at[k]])]]

ReportedReads == 3

GasOptimizationAnalyze(lines, answer) ==
    LET memory_issues == FindMemoryVsCalldata(lines)
        packing_optimal == AnalyzeStoragePacking(lines)
        loop_issues == FindLoopInefficiencies(lines)
        redundant_reads == FindRedundantStorageReads(lines)
        constant_opportunities == FindConstantOpportunities(lines)
        c1 == Put(NoChecks, "optimal_data_location", Len(memory_issues) = 0)
        c2 == Put(c1, "efficient_storage_packing", packing_optimal)
        c3 == Put(c2, "optimized_loops", Len(loop_issues) = 0)
        c4 == Put(c3, "cached_storage_reads", Len(redundant_reads) = 0)
        c5 == Put(c4, "uses_constants", Len(constant_opportunities) = 0)
        metta_result == MettaQuery(answer)
        reported == SubSeq(redundant_reads, 1, Min(ReportedReads, Len(redundant_reads)))
    IN  [checks |-> c5,
         issues |-> [k \in 1..Len(memory_issues) |->
                        Issue("low",
                         "Inefficient Data Location (Memory vs Calldata)", memory_issues[k], "")]
                    \o (IF packing_optimal THEN <<>>
                        ELSE <<Issue("low", "Suboptimal Storage Packing", 0, "")>>)
                    \o [k \in 1..Len(loop_issues) |->
                        Issue("low", loop_issues[k].title, loop_issues[k].line, "")]
                    \o [k \in 1..Len(reported) |->
                        Issue("low",
                         "Redundant Storage Read", reported[k].line, reported[k].variable)]
                    \o [k \in 1..Len(constant_opportunities) |->
                        Issue("low", "Variable Could Be Constant", constant_opportunities[k].line,
                              constant_opportunities[k].name)],
         code_fixes |-> [k \in 1..Len(memory_issues) |->
                            Fix("Memory instead of calldata", memory_issues[k])]
                        \o (IF packing_optimal THEN <<>>
                            ELSE <<Fix("Inefficient storage packing", 0)>>)
                        \o [k \in 1..Len(loop_issues) |->
                            Fix(loop_issues[k].fix, loop_issues[k].line)],
         metta_reasoning |-> metta_result]

\* ---- the detectors, in the order of CoordinatorAgent.audit's agent_tasks
Detectors == <<"Reentrancy",
 "AccessControl",
 "IntegerOverflow",
 "ExternalCalls",
 "GasOptimization">>

Analyze(d, lines, answer) ==
    CASE d = 1 -> ReentrancyAnalyze(lines, answer)
      [] d = 2 -> AccessControlAnalyze(lines, answer)
      [] d = 3 -> IntegerOverflowAnalyze(lines, answer)
      [] d = 4 -> ExternalCallsAnalyze(lines, answer)
      [] d = 5 -> GasOptimizationAnalyze(lines, answer)


\* ---- MeTTaReasoner.analyze_contract
ParseContractStructure(lines) ==
    LET version == ExtractSolidityVersion(lines)
    IN  [has_external_calls |-> AnyLine(lines, ReStructExternalCall),
         has_privileged_functions |-> AnyLine(lines, ReStructPrivileged),
         solidity_version_below_08 |->
            version # <<>> /\ version[1] = 0
            /\ (IF Len(version) > 1 THEN version[2] ELSE 0) < 8]

AnalyzeContract(lines, answer) ==
    [structure |-> ParseContractStructure(lines),
     metta_analysis |-> MettaQuery(answer)]

\* CoordinatorAgent._create_agent_tasks: the agents a focused task is made for
CreateAgentTasks(contract_analysis) ==
    (IF contract_analysis.structure.has_external_calls THEN <<"reentrancy">> ELSE <<>>)
    \o (IF contract_analysis.structure.has_privileged_functions
        THEN <<"access_control">> ELSE <<>>)
    \o (IF contract_analysis.structure.solidity_version_below_08
        THEN <<"integer_overflow">> ELSE <<>>)

\* ---- MeTTaReasoner.reason_about_findings
\* variant: 'gas' is tested before 'call'
CategorizeGasBeforeCall(title) ==
    LET has == TitleKeywords(title)
    IN  IF "reentrancy" \in has THEN "reentrancy"
        ELSE IF "access" \in has \/ "authorization" \in has THEN "access-control"
        ELSE IF "overflow" \in has \/ "underflow" \in has THEN "integer-overflow"
        ELSE IF "gas" \in has THEN "gas-optimization"
        ELSE IF "call" \in has THEN "external-call"
        ELSE "other"

CategorizeVulnerability(title) ==
    LET has == TitleKeywords(title)
    IN  IF "reentrancy" \in has THEN "reentrancy"
        ELSE IF "access" \in has \/ "authorization" \in has THEN "access-control"
        ELSE IF "overflow" \in has \/ "underflow" \in has THEN "integer-overflow"
        ELSE IF "call" \in has THEN "external-call"
        ELSE IF "gas" \in has THEN "gas-optimization"
        ELSE "other"

\* the keys of all_findings, in insertion order
CriteriaKeys == {Detectors[d] : d \in 1..Len(Detectors)}

ExtractVulnerabilities(all_findings) ==
    Flatten([d \in 1..Len(Detectors) |->
        LET issues == all_findings[Detectors[d]].issues
        IN  [k \in 1..Len(issues) |->
                [agent |-> Detectors[d],
                 severity |-> issues[k].severity,
                 title |-> issues[k].title,
                 type |-> CategorizeVulnerability(issues[k].title)]]])

CountSeverity(vulnerabilities, sev) ==
    Cardinality({k \in 1..Len(vulnerabilities) : vulnerabilities[k].severity = sev})

HasType(vulnerabilities, t) ==
    \E k \in 1..Len(vulnerabilities) : vulnerabilities[k].type = t

\* the insights are computed from the vulnerabilities alone
RuleInsights(vulnerabilities) ==
    (IF CountSeverity(vulnerabilities, "critical") > 0
     THEN <<[insight |-> "CRITICAL", count |-> CountSeverity(vulnerabilities, "critical")]>>
     ELSE <<>>)
    \o (IF CountSeverity(vulnerabilities, "high") > 0
        THEN <<[insight |-> "HIGH RISK", count |-> CountSeverity(vulnerabilities, "high")]>>
        ELSE <<>>)
    \o (IF HasType(vulnerabilities, "reentrancy") /\ HasType(vulnerabilities, "access-control")
        THEN <<[insight |-> "COMPOUND RISK", count |-> 0]>> ELSE <<>>)
    \o (IF Len(vulnerabilities) = 0
        THEN <<[insight |-> "SECURE", count |-> 0]>> ELSE <<>>)

\* variant: no insight is produced when the oracle query failed
ExtractInsightsOracle(vulnerabilities, metta_result) ==
    IF metta_result.success THEN RuleInsights(vulnerabilities) ELSE <<>>

\* _extract_insights never reads metta_result
ExtractInsights(vulnerabilities, metta_result) == RuleInsights(vulnerabilities)

SeverityWeight(sev) ==
    CASE sev = "critical" -> 10
      [] sev = "high" -> 7
      [] sev = "medium" -> 4
      [] sev = "low" -> 2
      [] sev = "info" -> 1
      [] OTHER -> 1

\* v.get('severity', 'low')
SeverityOf(v) == IF "severity" \in DOMAIN v THEN v.severity ELSE "low"

RECURSIVE TotalWeight(_)
TotalWeight(vulnerabilities) ==
    IF vulnerabilities = <<>> THEN 0
    ELSE SeverityWeight(SeverityOf(Head(vulnerabilities))) + TotalWeight(Tail(vulnerabilities))

MaxRiskTenths == 100

\* variant: the mean weight of the findings instead of their sum
CalculateRiskScoreMean(vulnerabilities) ==
    IF vulnerabilities = <<>> THEN 0
    ELSE Min((10 * TotalWeight(vulnerabilities)) \div Len(vulnerabilities), MaxRiskTenths)

\* the risk score in tenths: round(min(total / 10.0, 10.0), 2) * 10
CalculateRiskScore(vulnerabilities) ==
    Min(TotalWeight(vulnerabilities), MaxRiskTenths)

ManyIssues == 5

GenerateRecommendations(vulnerabilities, insights) ==
    LET byType ==
            (IF HasType(vulnerabilities, "reentrancy") THEN <<"ReentrancyGuard">> ELSE <<>>)
            \o (IF HasType(vulnerabilities, "access-control") THEN <<"access modifiers">> ELSE <<>>)
            \o (IF HasType(vulnerabilities, "integer-overflow") THEN <<"upgrade Solidity">> ELSE <<>>)
            \o (IF HasType(vulnerabilities, "external-call") THEN <<"check return values">> ELSE <<>>)
            \o (IF Len(vulnerabilities) > ManyIssues THEN <<"professional audit">> ELSE <<>>)
    IN  IF byType = <<>> THEN <<"best practices">> ELSE byType

ReasonAboutFindings(all_findings, answer) ==
    LET all_vulnerabilities == ExtractVulnerabilities(all_findings)
        result == MettaQuery(answer)
        insights == ExtractInsights(all_vulnerabilities, result)
    IN  [insights |-> insights,
         risk_score |-> CalculateRiskScore(all_vulnerabilities),
         recommendations |-> GenerateRecommendations(all_vulnerabilities, insights),
         metta_result |-> result]

\* ---- CoordinatorAgent
\* variant: the result substituted for a failure records the failure as a check
EmptyResultFlagged ==
    [checks |-> [k \in {"completed"} |-> FALSE], issues |-> <<>>, code_fixes |-> <<>>]

EmptyResult == [checks |-> NoChecks, issues |-> <<>>, code_fixes |-> <<>>]

Running == [state |-> "running"]
Raised == [state |-> "raised"]
Returned(r) == [state |-> "returned", value |-> r]

Finished(t) == t.state \in {"returned", "raised"}

\* variant: gather returns as soon as one task has finished
AnyTaskFinished(task) == \E d \in 1..Len(Detectors) : Finished(task[d])

\* asyncio.gather(*agent_tasks, return_exceptions=True) returns once every task
\* has returned or raised ...
AllTasksFinished(task) == \A d \in 1..Len(Detectors) : Finished(task[d])

\* what gather lists for a task: its result, or the exception it raised
Outcome(t) == IF t.state = "returned" THEN t.value ELSE t

\* variant: the outcomes are listed in the order in which the tasks completed
GatherInCompletionOrder(task, completed) ==
    [i \in 1..Len(Detectors) |->
        IF i <= Len(completed) THEN Outcome(task[completed[i]]) ELSE Outcome(task[i])]

\* ... and lists the outcomes in the order of agent_tasks, whatever the order
\* in which the tasks completed
GatherResults(task, completed) == [d \in 1..Len(Detectors) |-> Outcome(task[d])]

\* isinstance(result, Exception)
IsException(result) == result = Raised

\* variant: the substituted result lacks code_fixes
HandleFailuresBare(results) ==
    [i \in 1..Len(results) |->
        IF IsException(results[i]) THEN [checks |-> NoChecks, issues |-> <<>>]
        ELSE results[i]]

\* variant: one failure empties every result
HandleFailuresAll(results) ==
    [i \in 1..Len(results) |->
        IF \E j \in 1..Len(results) : IsException(results[j]) THEN EmptyResult
        ELSE results[i]]

\* for i, result in enumerate(results): if isinstance(result, Exception): ...
HandleFailures(results) ==
    [i \in 1..Len(results) |->
        IF IsException(results[i]) THEN EmptyResult ELSE results[i]]

AllFindings(results) ==
    [k \in CriteriaKeys |->
        results[CHOOSE d \in 1..Len(Detectors) : Detectors[d] = k]]

RECURSIVE SumOver(_, _)
SumOver(S, f) ==
    IF S = {} THEN 0
    ELSE LET x == CHOOSE y \in S : TRUE IN f[x] + SumOver(S \ {x}, f)

CountedSeverities == {"critical", "high", "medium", "low"}

\* severity_counts: issue.get("severity", "low") is counted only when it is
\* one of the four keys of the dict
SeverityCounts(findings) ==
    LET keys == DOMAIN findings
    IN  [sev \in CountedSeverities |->
            SumOver(keys, [k \in keys |->
                Cardinality({n \in 1..Len(findings[k].issues) :
                                SeverityOf(findings[k].issues[n]) = sev})])]

\* variant: total_checks counts only the checks that passed
CalculateSummaryPassed(findings) ==
    LET keys == DOMAIN findings
        severity_counts == SeverityCounts(findings)
        passed == SumOver(keys, [k \in keys |->
                    Cardinality({c \in DOMAIN findings[k].checks : findings[k].checks[c]})])
    IN  [total_checks |-> passed,
         passed_checks |-> passed,
         critical_issues |-> severity_counts["critical"],
         high_issues |-> severity_counts["high"],
         medium_issues |-> severity_counts["medium"],
         low_issues |-> severity_counts["low"]]

CalculateSummary(findings) ==
    LET keys == DOMAIN findings
        severity_counts == SeverityCounts(findings)
    IN  [total_checks |->
            SumOver(keys, [k \in keys |-> Cardinality(DOMAIN findings[k].checks)]),
         passed_checks |->
            SumOver(keys, [k \in keys |->
                Cardinality({c \in DOMAIN findings[k].checks : findings[k].checks[c]})]),
         critical_issues |-> severity_counts["critical"],
         high_issues |-> severity_counts["high"],
         medium_issues |-> severity_counts["medium"],
         low_issues |-> severity_counts["low"]]

BuildReport(all_findings, reasoning_result) ==
    [criteria |-> all_findings,
     summary |-> CalculateSummary(all_findings),
     risk_score |-> reasoning_result.risk_score,
     metta_insights |-> reasoning_result.insights,
     recommendations |-> reasoning_result.recommendations]

\* ---- AdvancedReasoner._detect_compound_vulnerabilities
\* risk_multiplier is kept in tenths
DangerousCombinations ==
    <<[types |-> <<"reentrancy", "access-control">>,
       name |-> "Reentrancy with Weak Access Control",
       severity |-> "critical", risk_multiplier |-> 30],
      [types |-> <<"integer-overflow", "external-call">>,
       name |-> "Arithmetic Overflow in External Context",
       severity |-> "high", risk_multiplier |-> 20],
      [types |-> <<"access-control", "dos">>,
       name |-> "Unauthorized DoS Attack",
       severity |-> "high", risk_multiplier |-> 18],
      [types |-> <<"reentrancy", "integer-overflow">>,
       name |-> "Reentrancy with State Corruption",
       severity |-> "critical", risk_multiplier |-> 25]>>

\* [v.get('type', '') for v in vulnerabilities]
VulnTypes(vulnerabilities) ==
    [k \in 1..Len(vulnerabilities) |-> vulnerabilities[k].type]

InList(x, list) == \E k \in 1..Len(list) : list[k] = x

\* variant: one category of the pair is enough
ComboPresentAny(combo, vuln_types) ==
    \E n \in 1..Len(combo.types) : InList(combo.types[n], vuln_types)

\* all(vtype in vuln_types for vtype in combo['types'])
ComboPresent(combo, vuln_types) ==
    \A n \in 1..Len(combo.types) : InList(combo.types[n], vuln_types)

DetectCompoundVulnerabilities(vulnerabilities) ==
    LET vuln_types == VulnTypes(vulnerabilities)
    IN  SelectSeq(DangerousCombinations, LAMBDA combo : ComboPresent(combo, vuln_types))

\* ---- AdvancedReasoner._analyze_vulnerability_interactions
\* the three pairs tested in turn; amplification_factor is kept in tenths
InteractionPairs ==
    <<[vulnerabilities |-> <<"reentrancy", "access-control">>,
       severity |-> "critical", amplification_factor |-> 25],
      [vulnerabilities |-> <<"integer-overflow", "external-call">>,
       severity |-> "high", amplification_factor |-> 18],
      [vulnerabilities |-> <<"front-running", "timestamp">>,
       severity |-> "high", amplification_factor |-> 16]>>

AnalyzeVulnerabilityInteractions(vulnerabilities) ==
    LET vuln_types == VulnTypes(vulnerabilities)
    IN  SelectSeq(InteractionPairs,
                  LAMBDA pair : /\ InList(pair.vulnerabilities[1], vuln_types)
                                /\ InList(pair.vulnerabilities[2], vuln_types))

\* ---- AdvancedReasoner._calculate_exploit_probabilities
\* base_probs in hundredths, 0.50 for a type outside the table
BaseProbability(vuln_type) ==
    CASE vuln_type = "reentrancy" -> 85
      [] vuln_type = "access-control" -> 95
      [] vuln_type = "integer-overflow" -> 70
      [] vuln_type = "external-call" -> 60
      [] vuln_type = "front-running" -> 75
      [] vuln_type = "timestamp" -> 65
      [] vuln_type = "dos" -> 80
      [] vuln_type = "gas-optimization" -> 30
      [] OTHER -> 50

\* the descriptions whose lower case contains 'requires complex attack'
MentionsComplexAttack ==
    {"Requires complex attack chain", "requires complex attack"}

\* vuln.get('description', '')
DescriptionOf(vuln) == IF "description" \in DOMAIN vuln THEN vuln.description ELSE ""

\* the three factors in tenths
ComplexityFactor(vuln) ==
    IF DescriptionOf(vuln) \in MentionsComplexAttack THEN 6 ELSE 10

VisibilityFactor(contract_metadata) ==
    IF contract_metadata.is_verified THEN 9 ELSE 10

ValueFactor(contract_metadata) ==
    IF contract_metadata.holds_funds THEN 12 ELSE 10

\* probabilities are kept in hundred-thousandths: a base in hundredths times
\* three factors in tenths
ProbabilityOne == 100000

\* variant: the product without the cap
ExploitProbabilityUncapped(vuln, contract_metadata) ==
    BaseProbability(vuln.type) * ComplexityFactor(vuln)
        * VisibilityFactor(contract_metadata) * ValueFactor(contract_metadata)

\* exploit_prob = min(base_prob * complexity * visibility * value, 1.0)
ExploitProbability(vuln, contract_metadata) ==
    Min(BaseProbability(vuln.type) * ComplexityFactor(vuln)
            * VisibilityFactor(contract_metadata) * ValueFactor(contract_metadata),
        ProbabilityOne)

\* the products that lie halfway between two hundredths and whose float is
\* below the half: 0.95 * 0.9 and 0.75 * 0.6 * 0.9
FloatBelowHalf == {85500, 40500}

\* round(exploit_prob, 2), in hundredths
RoundToHundredths(p) ==
    IF p \in FloatBelowHalf THEN p \div 1000 ELSE (p + 500) \div 1000

\* severity_weights.get(severity, 2)
RiskWeight(severity) ==
    CASE severity = "critical" -> 10
      [] severity = "high" -> 7
      [] severity = "medium" -> 4
      [] severity = "low" -> 2
      [] OTHER -> 2

\* variant: the thresholds are exclusive
CategorizeRiskStrict(probability, severity) ==
    LET risk_score == probability * RiskWeight(severity)
    IN  IF risk_score > 7 * ProbabilityOne THEN "EXTREME"
        ELSE IF risk_score > 5 * ProbabilityOne THEN "HIGH"
        ELSE IF risk_score > 3 * ProbabilityOne THEN "MODERATE"
        ELSE "LOW"

\* _categorize_risk: risk_score = probability * weight against 7, 5 and 3
CategorizeRisk(probability, severity) ==
    LET risk_score == probability * RiskWeight(severity)
    IN  IF risk_score >= 7 * ProbabilityOne THEN "EXTREME"
        ELSE IF risk_score >= 5 * ProbabilityOne THEN "HIGH"
        ELSE IF risk_score >= 3 * ProbabilityOne THEN "MODERATE"
        ELSE "LOW"

CalculateExploitProbabilities(vulnerabilities, contract_metadata) ==
    [k \in 1..Len(vulnerabilities) |->
        LET vuln == vulnerabilities[k]
            exploit_prob == ExploitProbability(vuln, contract_metadata)
        IN  [vulnerability |-> vuln.type,
             severity |-> SeverityOf(vuln),
             exploit_probability |-> RoundToHundredths(exploit_prob),
             base_probability |-> BaseProbability(vuln.type),
             risk_level |-> CategorizeRisk(exploit_prob, SeverityOf(vuln))]]

\* ---- AdvancedReasoner._calculate_business_impact
CountWhere(vulnerabilities, key, value) ==
    Cardinality({k \in 1..Len(vulnerabilities) :
                    key \in DOMAIN vulnerabilities[k] /\ vulnerabilities[k][key] = value})

\* variant: the score is not capped at 10
AssessFinancialImpactUncapped(vulnerabilities) ==
    CountWhere(vulnerabilities, "severity", "critical") * 3
        + CountWhere(vulnerabilities, "severity", "high") * 2

AssessFinancialImpact(vulnerabilities) ==
    Min(CountWhere(vulnerabilities, "severity", "critical") * 3
            + CountWhere(vulnerabilities, "severity", "high") * 2, 10)

AssessReputationalImpact(vulnerabilities) ==
    IF CountWhere(vulnerabilities, "severity", "critical") > 0 THEN 9 ELSE 5

AssessOperationalImpact(vulnerabilities) ==
    IF CountWhere(vulnerabilities, "type", "dos") > 0 THEN 8 ELSE 4

AssessLegalImpact(vulnerabilities) ==
    Min(CountWhere(vulnerabilities, "severity", "critical") * 2, 10)

\* avg_score = sum / 4 against 8, 6 and 4
CalculateBusinessImpact(vulnerabilities) ==
    LET total == AssessFinancialImpact(vulnerabilities)
                 + AssessReputationalImpact(vulnerabilities)
                 + AssessOperationalImpact(vulnerabilities)
                 + AssessLegalImpact(vulnerabilities)
    IN  IF total >= 8 * 4 THEN "CRITICAL"
        ELSE IF total >= 6 * 4 THEN "HIGH"
        ELSE IF total >= 4 * 4 THEN "MEDIUM"
        ELSE "LOW"

\* the four scores of the impact dict and its overall_impact
BusinessImpact(vulnerabilities) ==
    [financial |-> AssessFinancialImpact(vulnerabilities),
     reputational |-> AssessReputationalImpact(vulnerabilities),
     operational |-> AssessOperationalImpact(vulnerabilities),
     legal |-> AssessLegalImpact(vulnerabilities),
     overall_impact |-> CalculateBusinessImpact(vulnerabilities)]

\* ---- AdvancedReasoner._estimate_fix_time
\* time_estimates in quarters of a day, 0.5 day for a severity outside the
\* table; a finding without the key counts as 'low'
TimeEstimate(severity) ==
    CASE severity = "critical" -> 8
      [] severity = "high" -> 4
      [] severity = "medium" -> 2
      [] severity = "low" -> 1
      [] OTHER -> 2

RECURSIVE TotalDays(_)
TotalDays(vulnerabilities) ==
    IF vulnerabilities = <<>> THEN 0
    ELSE TimeEstimate(SeverityOf(Head(vulnerabilities))) + TotalDays(Tail(vulnerabilities))

\* variant: the week starts after seven days, not at seven
EstimateFixTimeLateWeek(vulnerabilities) ==
    LET total_days == TotalDays(vulnerabilities)
    IN  IF total_days < 1 * 4 THEN [amount |-> (total_days * 8) \div 4, unit |-> "hours"]
        ELSE IF total_days <= 7 * 4 THEN [amount |-> total_days \div 4, unit |-> "days"]
        ELSE [amount |-> total_days \div (7 * 4), unit |-> "weeks"]

\* f"{int(total_days * 8)} hours", f"{int(total_days)} days",
\* f"{int(total_days / 7)} weeks": the number and the unit of the string
EstimateFixTime(vulnerabilities) ==
    LET total_days == TotalDays(vulnerabilities)
    IN  IF total_days < 1 * 4 THEN [amount |-> (total_days * 8) \div 4, unit |-> "hours"]
        ELSE IF total_days < 7 * 4 THEN [amount |-> total_days \div 4, unit |-> "days"]
        ELSE [amount |-> total_days \div (7 * 4), unit |-> "weeks"]

\* ---- AdvancedReasoner._generate_action_plan
\* [v for v in vulnerabilities if v.get('severity') == severity]
WithSeverity(vulnerabilities, severity) ==
    SelectSeq(vulnerabilities,
              LAMBDA v : "severity" \in DOMAIN v /\ v.severity = severity)

\* the item appended for a severity: its priority, the count its first
\* action names and the types of its findings; nothing for an empty group
TierItem(vulnerabilities, severity, priority) ==
    LET group == WithSeverity(vulnerabilities, severity)
    IN  IF group = <<>> THEN <<>>
        ELSE <<[priority |-> priority, count |-> Len(group), names |-> VulnTypes(group)]>>

\* actions.insert(0, ...) when compound_vulns is not empty
CompoundItem(compound_vulns) ==
    IF compound_vulns = <<>> THEN <<>>
    ELSE <<[priority |-> "CRITICAL", count |-> Len(compound_vulns),
            names |-> [k \in 1..Len(compound_vulns) |-> compound_vulns[k].name]]>>

\* variant: the compound item is appended after the tiers
GenerateActionPlanAppended(vulnerabilities, compound_vulns) ==
    LET actions == TierItem(vulnerabilities, "critical", "IMMEDIATE")
                   \o TierItem(vulnerabilities, "high", "URGENT")
                   \o TierItem(vulnerabilities, "medium", "MEDIUM")
                   \o TierItem(vulnerabilities, "low", "LOW")
                   \o CompoundItem(compound_vulns)
    IN  [total_actions |-> Len(actions),
         estimated_time |-> EstimateFixTime(vulnerabilities),
         recommended_order |-> actions]

GenerateActionPlan(vulnerabilities, compound_vulns) ==
    LET actions == CompoundItem(compound_vulns)
                   \o TierItem(vulnerabilities, "critical", "IMMEDIATE")
                   \o TierItem(vulnerabilities, "high", "URGENT")
                   \o TierItem(vulnerabilities, "medium", "MEDIUM")
                   \o TierItem(vulnerabilities, "low", "LOW")
    IN  [total_actions |-> Len(actions),
         estimated_time |-> EstimateFixTime(vulnerabilities),
         recommended_order |-> actions]

(***************************************************************************)
(* The state.  One audit run (CoordinatorAgent.audit): its source, where   *)
(* the run is, the contract analysis, the five detector tasks and the      *)
(* order in which they completed, the keyed findings and the report it     *)
(* returns.  DetectSpec runs one detector twice on one source;             *)
(* ReasonSpec grows and permutes a finding list and runs the compound      *)
(* detection on it.                                                        *)
(***************************************************************************)
VARIABLES source_code, pc, contract_analysis, task, completed, all_findings, report,
          detector, first_run, second_run,
          vulnerabilities, compound_vulns, previous_compound, last_change,
          start_line, extracted,
          risk_score, previous_score, scored,
          contract_metadata, interactions, exploit_probabilities, business_impact,
          impact, action_plan,
          storage, requests, results, routed, user_inbox, produced

auditVars == <<source_code, pc, contract_analysis, task, completed, all_findings, report>>
detectVars == <<detector, first_run, second_run>>
reasonVars == <<vulnerabilities, compound_vulns, previous_compound, last_change>>
blockVars == <<start_line, extracted>>
scoreVars == <<risk_score, previous_score, scored>>
advancedVars == <<contract_metadata, interactions, exploit_probabilities, business_impact>>
planVars == <<impact, action_plan>>
agentVars == <<storage, requests, results, routed, user_inbox, produced>>
vars == <<auditVars, detectVars, reasonVars, blockVars, scoreVars, advancedVars, planVars,
          agentVars>>

None == [none |-> TRUE]
\* source_code = None; a str always splits into at least one line
NoSource == <<>>

AuditSources == {SrcDrain, SrcMixed, SrcGas}

NotCreated == [state |-> "none"]

DetectIdle == detector = 0 /\ first_run = None /\ second_run = None

ReasonIdle ==
    /\ vulnerabilities = <<>>
    /\ compound_vulns = <<>>
    /\ previous_compound = <<>>
    /\ last_change = "none"

BlockIdle == start_line = 0 /\ extracted = None

ScoreIdle == risk_score = 0 /\ previous_score = 0 /\ scored = 0

AdvancedIdle ==
    /\ contract_metadata = None
    /\ interactions = <<>>
    /\ exploit_probabilities = <<>>
    /\ business_impact = "none"

PlanIdle == impact = None /\ action_plan = None

\* the coordinator agent of agent4.py has not started
AgentIdle ==
    /\ storage = <<>>
    /\ requests = {}
    /\ results = {}
    /\ routed = <<>>
    /\ user_inbox = <<>>
    /\ produced = {}

AuditIdle ==
    /\ pc = "idle"
    /\ contract_analysis = None
    /\ task = [d \in 1..Len(Detectors) |-> NotCreated]
    /\ completed = <<>>
    /\ all_findings = None
    /\ report = None

Init ==
    /\ source_code \in AuditSources \cup {NoSource}
    /\ pc = "start"
    /\ contract_analysis = None
    /\ task = [d \in 1..Len(Detectors) |-> NotCreated]
    /\ completed = <<>>
    /\ all_findings = None
    /\ report = None
    /\ DetectIdle
    /\ ReasonIdle
    /\ BlockIdle
    /\ ScoreIdle
    /\ AdvancedIdle
    /\ PlanIdle
    /\ AgentIdle

\* audit, lines 148-165: the contract analysis, then the five tasks are made.
\* On source_code = None the first re.search of _parse_contract_structure
\* raises TypeError, which nothing in audit catches.
AnalyzeContractStep(answer) ==
    /\ pc = "start"
    /\ IF source_code = NoSource
       THEN /\ pc' = "raised"
            /\ UNCHANGED <<contract_analysis, task>>
       ELSE /\ contract_analysis' = AnalyzeContract(source_code, answer)
            /\ task' = [d \in 1..Len(Detectors) |-> Running]
            /\ pc' = "gather"
    /\ UNCHANGED <<source_code, completed, all_findings, report, detectVars, reasonVars, blockVars, scoreVars, advancedVars, planVars, agentVars>>

\* a detector's analyze returns; its own query was answered or raised an error
TaskReturns(d, answer) ==
    /\ pc = "gather"
    /\ task[d].state = "running"
    /\ task' = [task EXCEPT ![d] = Returned(Analyze(d, source_code, answer))]
    /\ completed' = Append(completed, d)
    /\ UNCHANGED <<source_code, pc, contract_analysis, all_findings, report,
                   detectVars, reasonVars, blockVars, scoreVars, advancedVars, planVars, agentVars>>

\* a detector's analyze raises
TaskRaises(d) ==
    /\ pc = "gather"
    /\ task[d].state = "running"
    /\ task' = [task EXCEPT ![d] = Raised]
    /\ completed' = Append(completed, d)
    /\ UNCHANGED <<source_code, pc, contract_analysis, all_findings, report,
                   detectVars, reasonVars, blockVars, scoreVars, advancedVars, planVars, agentVars>>

\* audit, lines 167-182: gather returns, failures are replaced by the empty
\* result and the results are keyed by detector
GatherReturns ==
    /\ pc = "gather"
    /\ AllTasksFinished(task)
    /\ all_findings' = AllFindings(HandleFailures(GatherResults(task, completed)))
    /\ pc' = "reason"
    /\ UNCHANGED <<source_code, contract_analysis, task, completed, report,
                   detectVars, reasonVars, blockVars, scoreVars, advancedVars, planVars, agentVars>>

\* audit, lines 187-214: the cross-agent reasoning (its query answered or in
\* error), the summary, and the report that is returned
ReasonAndReport(answer) ==
    /\ pc = "reason"
    /\ report' = BuildReport(all_findings, ReasonAboutFindings(all_findings, answer))
    /\ pc' = "done"
    /\ UNCHANGED <<source_code, contract_analysis, task, completed, all_findings,
                   detectVars, reasonVars, blockVars, scoreVars, advancedVars, planVars, agentVars>>

\* MeTTaReasoner.query, line 308: self.metta.run(...) is a synchronous call
\* with no timeout; a query is pending in analyze_contract, in a running
\* detector and in reason_about_findings
QueryPending ==
    \/ pc = "start" /\ source_code # NoSource
    \/ pc = "gather" /\ \E d \in 1..Len(Detectors) : task[d].state = "running"
    \/ pc = "reason"

\* the oracle never answers: the call at line 308 does not return, and the
\* event loop, which it occupies, runs nothing else
QueryNeverReturns ==
    /\ QueryPending
    /\ pc' = "blocked"
    /\ UNCHANGED <<source_code, contract_analysis, task, completed, all_findings, report,
                   detectVars, reasonVars, blockVars, scoreVars, advancedVars, planVars, agentVars>>

Next ==
    \/ \E answer \in OracleAnswers : AnalyzeContractStep(answer)
    \/ \E d \in 1..Len(Detectors), answer \in OracleAnswers : TaskReturns(d, answer)
    \/ \E d \in 1..Len(Detectors) : TaskRaises(d)
    \/ GatherReturns
    \/ \E answer \in OracleAnswers : ReasonAndReport(answer)
    \/ QueryNeverReturns

Spec == Init /\ [][Next]_vars

\* the event loop runs whatever can run
FairSpec == Spec /\ WF_vars(Next)

(***************************************************************************)
(* DetectSpec: one detector is run on one source, then run again.          *)
(***************************************************************************)
MaxLines == 2

DetectLines ==
    {"",
     "pragma solidity ^0.7.6;",
     "pragma solidity ^0.8.20;",
     "contract Vault is ReentrancyGuard, Ownable {",
     "function withdraw(uint amount) public {",
     "function setFee(uint[] memory rates) external {",
     "token.call{value: amount}(data);",
     "balance = balance - amount;",
      "unchecked { balance += amount; }",
      "fee = amount / rate * scale;",
      "target.delegatecall(data);",
      "for (uint i = 0; i < users.length; i++) {"}

CuratedSources == {SrcEmpty, SrcVulnerable, SrcDrain, SrcSafe, SrcGas, SrcMixed}

DetectSources ==
    CuratedSources \cup UNION {[1..n -> DetectLines] : n \in 1..MaxLines}

DetectInit ==
    /\ source_code \in DetectSources
    /\ AuditIdle
    /\ DetectIdle
    /\ ReasonIdle
    /\ BlockIdle
    /\ ScoreIdle
    /\ AdvancedIdle
    /\ PlanIdle
    /\ AgentIdle

FirstRun(d, answer) ==
    /\ detector = 0
    /\ detector' = d
    /\ first_run' = Analyze(d, source_code, answer)
    /\ UNCHANGED <<second_run, auditVars, reasonVars, blockVars, scoreVars, advancedVars, planVars, agentVars>>

SecondRun(answer) ==
    /\ detector # 0
    /\ second_run = None
    /\ second_run' = Analyze(detector, source_code, answer)
    /\ UNCHANGED <<detector, first_run, auditVars, reasonVars, blockVars, scoreVars, advancedVars, planVars, agentVars>>

DetectNext ==
    \/ \E d \in 1..Len(Detectors), answer \in OracleAnswers : FirstRun(d, answer)
    \/ \E answer \in OracleAnswers : SecondRun(answer)

DetectSpec == DetectInit /\ [][DetectNext]_vars

(***************************************************************************)
(* ReasonSpec: a finding list is grown, reordered and duplicated, and the  *)
(* interaction analysis and the compound detection are run on it after     *)
(* every change.                                                           *)
(***************************************************************************)
MaxFindings == 3

\* the categories of the dangerous-pair table and of the interaction tests,
\* one outside them, and the empty string v.get('type', '') gives a finding
\* without a type
FindingTypes ==
    {"reentrancy", "access-control", "integer-overflow", "external-call", "dos",
     "front-running", "timestamp", "other", ""}

ReasonInit ==
    /\ source_code = NoSource
    /\ AuditIdle
    /\ DetectIdle
    /\ ReasonIdle
    /\ BlockIdle
    /\ ScoreIdle
    /\ AdvancedIdle
    /\ PlanIdle
    /\ AgentIdle

Detect(list, change) ==
    /\ vulnerabilities' = list
    /\ previous_compound' = compound_vulns
    /\ interactions' = AnalyzeVulnerabilityInteractions(list)
    /\ compound_vulns' = DetectCompoundVulnerabilities(list)
    /\ last_change' = change
    /\ UNCHANGED <<contract_metadata, exploit_probabilities, business_impact,
                   auditVars, detectVars, blockVars, scoreVars, planVars, agentVars>>

AddFinding(t) ==
    /\ Len(vulnerabilities) < MaxFindings
    /\ Detect(Append(vulnerabilities, [type |-> t]), "add")

ReorderFindings(i) ==
    /\ i < Len(vulnerabilities)
    /\ Detect([vulnerabilities EXCEPT ![i] = vulnerabilities[i + 1],
                                      ![i + 1] = vulnerabilities[i]], "reorder")

DuplicateFinding(i) ==
    /\ Len(vulnerabilities) < MaxFindings
    /\ i <= Len(vulnerabilities)
    /\ Detect(Append(vulnerabilities, vulnerabilities[i]), "duplicate")

ReasonNext ==
    \/ \E t \in FindingTypes : AddFinding(t)
    \/ \E i \in 1..MaxFindings : ReorderFindings(i)
    \/ \E i \in 1..MaxFindings : DuplicateFinding(i)

ReasonSpec == ReasonInit /\ [][ReasonNext]_vars

(***************************************************************************)
(* BlockSpec: one of the three block extractors is run on a source at a    *)
(* line that opens a brace.                                                *)
(***************************************************************************)
MaxBlockLines == 4

BlockLines ==
    {"function withdraw(uint amount) public {",
     "unchecked {",
     "unchecked { balance += amount; }",
     "for (uint i = 0; i < users.length; i++) {",
     "emit Paid(amount);",
     "}"}

BlockSources == UNION {[1..n -> BlockLines] : n \in 1..MaxBlockLines}

Extractors == {"_extract_function", "_extract_block", "_extract_function_body"}

BlockInit ==
    /\ source_code \in BlockSources
    /\ start_line \in {i \in 1..Len(source_code) : source_code[i] \in HasOpenBrace}
    /\ extracted = None
    /\ AuditIdle
    /\ DetectIdle
    /\ ReasonIdle
    /\ ScoreIdle
    /\ AdvancedIdle
    /\ PlanIdle
    /\ AgentIdle

\* the extractor e is called with the source's lines and the start line
Extract(e) ==
    /\ extracted = None
    /\ extracted' =
          [extractor |-> e,
           text |-> CASE e = "_extract_function" -> ExtractFunction(source_code, start_line)
                      [] e = "_extract_block" -> ExtractBlock(source_code, start_line)
                      [] e = "_extract_function_body" -> ExtractFunctionBody(source_code, start_line)]
    /\ UNCHANGED <<start_line, auditVars, detectVars, reasonVars, scoreVars, advancedVars, planVars, agentVars>>

BlockNext == \E e \in Extractors : Extract(e)

BlockSpec == BlockInit /\ [][BlockNext]_vars

(***************************************************************************)
(* LongBlockSpec: the extractors are run on sources that are longer than   *)
(* their ceilings and whose opening brace is followed by a long run of     *)
(* lines.                                                                  *)
(***************************************************************************)
MaxRun == 101
MaxLead == 2

\* the run after the opening line: statements only, loops that open one
\* more brace each, a loop opened and closed in turn, and statements with
\* the closing brace as the last line
RunKinds == {"statements", "nested", "paired", "closed"}

RunOf(kind, n) ==
    [k \in 1..n |->
        CASE kind = "statements" -> "emit Paid(amount);"
          [] kind = "nested" -> "for (uint i = 0; i < users.length; i++) {"
          [] kind = "paired" -> (IF k % 2 = 1 THEN "for (uint i = 0; i < users.length; i++) {" ELSE "}")
          [] kind = "closed" -> (IF k = n THEN "}" ELSE "emit Paid(amount);")]

LongBlockInit ==
    /\ \E lead \in 0..MaxLead, open \in {"function withdraw(uint amount) public {", "unchecked {"},
          kind \in RunKinds, n \in 0..MaxRun :
            /\ source_code = [k \in 1..lead |-> "emit Paid(amount);"] \o <<open>> \o RunOf(kind, n)
            /\ start_line = lead + 1
    /\ extracted = None
    /\ AuditIdle
    /\ DetectIdle
    /\ ReasonIdle
    /\ ScoreIdle
    /\ AdvancedIdle
    /\ PlanIdle
    /\ AgentIdle

LongBlockSpec == LongBlockInit /\ [][BlockNext]_vars

(***************************************************************************)
(* ScoreSpec: the risk score of a finding list, computed again after each  *)
(* finding that is added to the list.                                      *)
(***************************************************************************)
MaxCritical == 10
MaxScored == 2

\* a finding of each severity of the weight table, one of a severity outside
\* it, and one without the key
ScoredFindings ==
    {[severity |-> s] : s \in {"critical", "high", "medium", "low", "info", "unknown"}}
        \cup {[title |-> "untitled"]}

ScoreInit ==
    /\ \E n \in 0..MaxCritical :
            vulnerabilities = [k \in 1..n |-> [severity |-> "critical"]]
    /\ risk_score = CalculateRiskScore(vulnerabilities)
    /\ previous_score = risk_score
    /\ scored = 0
    /\ compound_vulns = <<>>
    /\ previous_compound = <<>>
    /\ last_change = "none"
    /\ source_code = NoSource
    /\ AuditIdle
    /\ DetectIdle
    /\ BlockIdle
    /\ AdvancedIdle
    /\ PlanIdle
    /\ AgentIdle

\* the list with one more finding is scored
ScoreWith(f) ==
    /\ scored < MaxScored
    /\ scored' = scored + 1
    /\ vulnerabilities' = Append(vulnerabilities, f)
    /\ previous_score' = risk_score
    /\ risk_score' = CalculateRiskScore(vulnerabilities')
    /\ UNCHANGED <<compound_vulns, previous_compound, last_change,
                   auditVars, detectVars, blockVars, advancedVars, planVars, agentVars>>

ScoreNext == \E f \in ScoredFindings : ScoreWith(f)

ScoreSpec == ScoreInit /\ [][ScoreNext]_vars

(***************************************************************************)
(* PipelineSpec: the five detectors are run on a source, their findings    *)
(* are flattened and categorized as reason_about_findings does, and the    *)
(* advanced reasoner is run on the categorized list.                       *)
(***************************************************************************)
ContractMetadata == [is_verified : BOOLEAN, holds_funds : BOOLEAN]

PipelineInit ==
    /\ source_code \in DetectSources
    /\ contract_metadata \in ContractMetadata
    /\ interactions = <<>>
    /\ exploit_probabilities = <<>>
    /\ business_impact = "none"
    /\ PlanIdle
    /\ AgentIdle
    /\ AuditIdle
    /\ DetectIdle
    /\ ReasonIdle
    /\ BlockIdle
    /\ ScoreIdle

\* the five analyses of the source, keyed by detector
CollectFindings(answer) ==
    /\ all_findings = None
    /\ all_findings' = AllFindings([d \in 1..Len(Detectors) |->
                                        Analyze(d, source_code, answer)])
    /\ UNCHANGED <<source_code, pc, contract_analysis, task, completed, report,
                   detectVars, reasonVars, blockVars, scoreVars, advancedVars, planVars, agentVars>>

\* perform_multi_agent_reasoning on the flattened, categorized findings
PerformMultiAgentReasoning ==
    /\ all_findings # None
    /\ business_impact = "none"
    /\ vulnerabilities' = ExtractVulnerabilities(all_findings)
    /\ interactions' = AnalyzeVulnerabilityInteractions(vulnerabilities')
    /\ exploit_probabilities' =
            CalculateExploitProbabilities(vulnerabilities', contract_metadata)
    /\ compound_vulns' = DetectCompoundVulnerabilities(vulnerabilities')
    /\ impact' = BusinessImpact(vulnerabilities')
    /\ business_impact' = impact'.overall_impact
    /\ action_plan' = GenerateActionPlan(vulnerabilities', compound_vulns')
    /\ UNCHANGED <<previous_compound, last_change, contract_metadata,
                   auditVars, detectVars, blockVars, scoreVars, agentVars>>

PipelineNext ==
    \/ \E answer \in OracleAnswers : CollectFindings(answer)
    \/ PerformMultiAgentReasoning

PipelineSpec == PipelineInit /\ [][PipelineNext]_vars

(***************************************************************************)
(* SummarySpec: findings are added to the entries of a findings map, and   *)
(* the summary is computed from the map after each of them.                *)
(***************************************************************************)
MaxReported == 2

\* an issue of each severity level, and one without the key
ReportedIssues ==
    {Issue(sev, "Finding", 0, "") : sev \in {"critical", "high", "medium", "low", "info"}}
        \cup {[title |-> "Finding", line |-> 0, subject |-> ""]}

\* the two parts of the report that audit computes from the findings map
Summarized(findings) ==
    [criteria |-> findings, summary |-> CalculateSummary(findings)]

SummaryInit ==
    /\ all_findings = [k \in CriteriaKeys |-> EmptyResult]
    /\ report = Summarized(all_findings)
    /\ source_code = NoSource
    /\ pc = "idle"
    /\ contract_analysis = None
    /\ task = [d \in 1..Len(Detectors) |-> NotCreated]
    /\ completed = <<>>
    /\ DetectIdle
    /\ ReasonIdle
    /\ BlockIdle
    /\ ScoreIdle
    /\ AdvancedIdle
    /\ PlanIdle
    /\ AgentIdle

\* the entry k holds one more issue, and the map is summarized
ReportIssue(k, issue) ==
    /\ SumOver(CriteriaKeys, [c \in CriteriaKeys |-> Len(all_findings[c].issues)])
            < MaxReported
    /\ all_findings' = [all_findings EXCEPT ![k].issues = Append(@, issue)]
    /\ report' = Summarized(all_findings')
    /\ UNCHANGED <<source_code, pc, contract_analysis, task, completed,
                   detectVars, reasonVars, blockVars, scoreVars, advancedVars, planVars, agentVars>>

SummaryNext == \E k \in CriteriaKeys, issue \in ReportedIssues : ReportIssue(k, issue)

SummarySpec == SummaryInit /\ [][SummaryNext]_vars

(***************************************************************************)
(* CategorySpec: a findings map holding one issue is flattened and the     *)
(* issue is categorized from its title.                                    *)
(***************************************************************************)
\* the titles the detectors emit
DetectorTitles ==
    {"Reentrancy Vulnerability Detected",
     "Dangerous use of tx.origin",
     "Integer Overflow/Underflow Risk",
     "Potentially Unsafe Unchecked Block",
     "Precision Loss: Division Before Multiplication",
     "Unchecked Low-Level Call",
     "Unsafe Delegatecall to Untrusted Address",
      "Consider Pull Payment Pattern",
      "Inefficient Data Location (Memory vs Calldata)",
      "Suboptimal Storage Packing",
      "Array Length in Loop Condition",
      "Use ++i Instead of i++",
      "Redundant Storage Read",
     "Variable Could Be Constant"}
        \cup {UnprotectedTitle(name) : name \in {"withdraw", "setFee", "mint"}}

\* titles holding several of the keywords, a keyword in upper case, and none
OtherTitles ==
    {"Reentrancy via External Call", "REENTRANCY", "Missing Access Check on Overflow Path",
     "Authorization Bypass", "Underflow in Gas Refund", "Gas-Heavy External Call",
     "High Gas Usage", "Call Overflow", "Authorization of Reentrancy Guard",
     "Informational", ""}

CategoryInit ==
    /\ \E k \in CriteriaKeys, title \in DetectorTitles \cup OtherTitles,
          sev \in {"critical", "high", "medium", "low", "info"} :
            all_findings = [c \in CriteriaKeys |->
                                IF c = k
                                THEN [EmptyResult EXCEPT !.issues = <<Issue(sev, title, 0, "")>>]
                                ELSE EmptyResult]
    /\ source_code = NoSource
    /\ pc = "idle"
    /\ contract_analysis = None
    /\ task = [d \in 1..Len(Detectors) |-> NotCreated]
    /\ completed = <<>>
    /\ report = None
    /\ DetectIdle
    /\ ReasonIdle
    /\ BlockIdle
    /\ ScoreIdle
    /\ AdvancedIdle
    /\ PlanIdle
    /\ AgentIdle

\* reason_about_findings, lines 359-368: the issues are flattened and typed
FlattenFindings ==
    /\ vulnerabilities = <<>>
    /\ vulnerabilities' = ExtractVulnerabilities(all_findings)
    /\ last_change' = "add"
    /\ UNCHANGED <<compound_vulns, previous_compound, auditVars, detectVars,
                   blockVars, scoreVars, advancedVars, planVars, agentVars>>

CategoryNext == FlattenFindings

CategorySpec == CategoryInit /\ [][CategoryNext]_vars

(***************************************************************************)
(* ExploitSpec: the exploit probabilities of a finding list are computed   *)
(* for a contract metadata.                                                *)
(***************************************************************************)
MaxAssessed == 1

\* the types of the base table, one outside it and the missing type; the
\* five severity levels and a finding without the key; a description that
\* mentions a complex attack and one that does not
AssessedFindings ==
    LET types == {"reentrancy", "access-control", "integer-overflow", "external-call",
                  "front-running", "timestamp", "dos", "gas-optimization", "other", ""}
        descriptions == {"Requires complex attack chain", "Funds can be drained"}
    IN  [type : types, severity : {"critical", "high", "medium", "low", "info"},
         description : descriptions]
            \cup [type : types, description : descriptions]

ExploitInit ==
    /\ vulnerabilities \in UNION {[1..n -> AssessedFindings] : n \in 1..MaxAssessed}
    /\ contract_metadata \in ContractMetadata
    /\ interactions = <<>>
    /\ exploit_probabilities = <<>>
    /\ business_impact = "none"
    /\ PlanIdle
    /\ AgentIdle
    /\ compound_vulns = <<>>
    /\ previous_compound = <<>>
    /\ last_change = "none"
    /\ source_code = NoSource
    /\ AuditIdle
    /\ DetectIdle
    /\ BlockIdle
    /\ ScoreIdle

\* _calculate_exploit_probabilities(vulnerabilities, contract_metadata)
AssessExploits ==
    /\ exploit_probabilities = <<>>
    /\ exploit_probabilities' =
            CalculateExploitProbabilities(vulnerabilities, contract_metadata)
    /\ UNCHANGED <<contract_metadata, interactions, business_impact,
                   auditVars, detectVars, reasonVars, blockVars, scoreVars, planVars, agentVars>>

ExploitNext == AssessExploits

ExploitSpec == ExploitInit /\ [][ExploitNext]_vars

(***************************************************************************)
(* PlanSpec: the business impact and the action plan of a finding list,    *)
(* computed as perform_multi_agent_reasoning computes them: the compound   *)
(* vulnerabilities first, then the impact, then the plan.                  *)
(***************************************************************************)
MaxPlanned == 2

\* findings of the categories of two dangerous pairs and of 'dos', of each
\* severity level and without the key
PlannedFindings ==
    LET types == {"reentrancy", "integer-overflow", "dos", "other"}
    IN  [type : types, severity : {"critical", "high", "medium", "low", "info"}]
            \cup [type : types]

\* up to MaxCritical critical findings of one category, followed by up to
\* MaxPlanned findings of any kind
PlanInit ==
    /\ \E n \in 0..MaxCritical, rest \in UNION {[1..m -> PlannedFindings] : m \in 0..MaxPlanned} :
            vulnerabilities = [k \in 1..n |-> [type |-> "other", severity |-> "critical"]] \o rest
    /\ compound_vulns = <<>>
    /\ previous_compound = <<>>
    /\ last_change = "none"
    /\ source_code = NoSource
    /\ AuditIdle
    /\ DetectIdle
    /\ BlockIdle
    /\ ScoreIdle
    /\ AdvancedIdle
    /\ PlanIdle
    /\ AgentIdle

\* steps 4, 6 and 7 of perform_multi_agent_reasoning
PlanRemediation ==
    /\ action_plan = None
    /\ compound_vulns' = DetectCompoundVulnerabilities(vulnerabilities)
    /\ impact' = BusinessImpact(vulnerabilities)
    /\ business_impact' = impact'.overall_impact
    /\ action_plan' = GenerateActionPlan(vulnerabilities, compound_vulns')
    /\ UNCHANGED <<vulnerabilities, previous_compound, last_change, contract_metadata,
                   interactions, exploit_probabilities,
                   auditVars, detectVars, blockVars, scoreVars, agentVars>>

PlanNext == PlanRemediation

PlanSpec == PlanInit /\ [][PlanNext]_vars

(***************************************************************************)
(* UncheckedSpec: the integer-overflow detector is run on sources of a     *)
(* checked-arithmetic compiler version that hold unchecked blocks.         *)
(***************************************************************************)
MaxUncheckedLines == 4

UncheckedLines ==
    {"unchecked {",
     "unchecked { ++i; }",
     "unchecked { balance += amount; }",
     "unchecked { x = y - 1; }",
     "unchecked { balance += amount; ++i; }",
     "++i;", "emit Paid(amount);", "}"}

UncheckedSources ==
    {<<"pragma solidity ^0.8.20;">> \o body : body \in UNION {[1..n -> UncheckedLines] : n \in 1..MaxUncheckedLines}}

UncheckedInit ==
    /\ source_code \in UncheckedSources
    /\ AuditIdle
    /\ DetectIdle
    /\ ReasonIdle
    /\ BlockIdle
    /\ ScoreIdle
    /\ AdvancedIdle
    /\ PlanIdle
    /\ AgentIdle

\* IntegerOverflowAgent.analyze(source_code, metta_context)
AnalyzeOverflow(answer) == FirstRun(3, answer)

UncheckedNext == \E answer \in OracleAnswers : AnalyzeOverflow(answer)

UncheckedSpec == UncheckedInit /\ [][UncheckedNext]_vars

(***************************************************************************)
(* AgentSpec: the coordinator agent of agent4.py takes chat messages from  *)
(* a user, sends task requests to the three worker agents and handles the  *)
(* task results as they come back, in any order.                           *)
(***************************************************************************)
MaxQueries == 2
MaxAnomalies == 1

AGENT1_ADDR == "agent1_address@http://localhost:8001"
AGENT2_ADDR == "agent2_address@http://localhost:8002"
AGENT3_ADDR == "agent3_address@http://localhost:8003"

\* the address a chat message comes from
UserAddress == "user_address@http://localhost:8000"

TaskTypes == <<"analysis", "simulation", "monitoring">>

\* the worker each task type is sent to
AgentOf(type) ==
    CASE type = "analysis" -> AGENT1_ADDR
      [] type = "simulation" -> AGENT2_ADDR
      [] OTHER -> AGENT3_ADDR

\* the task type each worker's handle_task_req answers
TypeHandledBy(address) ==
    CASE address = AGENT1_ADDR -> "analysis"
      [] address = AGENT2_ADDR -> "simulation"
      [] OTHER -> "monitoring"

\* str(uuid4()): the n-th identifier drawn
Uuid(n) == "id" \o ToString(n)

\* the identifiers drawn for queries so far
Issued == Cardinality(DOMAIN routed)

\* the anomalies reported so far
Anomalies ==
    Cardinality({m \in results : m.result = "anomaly"})
       + Cardinality({m \in produced : m.anomaly})

\* f"aggregated_{query_id}"
AggregatedKey(query_id) == "aggregated_" \o query_id

\* {}
EmptyDict == [k \in {} |-> None]

\* sender.startswith(prefix)
StartsWith(sender, prefix) ==
    /\ Len(sender) >= Len(prefix)
    /\ SubSeq(sender, 1, Len(prefix)) = prefix

\* the entry of the aggregated dictionary a sender's result is written to
Recorded(aggregated, sender, result) ==
    IF StartsWith(sender, "agent1") THEN Put(aggregated, "analysis", [result |-> result])
    ELSE IF StartsWith(sender, "agent2") THEN Put(aggregated, "simulation", [result |-> result])
    ELSE IF StartsWith(sender, "agent3") THEN Put(aggregated, "monitoring", [result |-> result])
    ELSE aggregated

\* all(value is not None for value in aggregated.values() if value is not None)
AllResultsIn(aggregated) ==
    \A k \in {x \in DOMAIN aggregated : aggregated[x] # None} : aggregated[k] # None

\* ctx.storage.get(key, {})
StorageGet(key) == IF key \in DOMAIN storage THEN storage[key] ELSE EmptyDict

\* ctx.storage.delete(key)
StorageDelete(store, key) == [k \in DOMAIN store \ {key} |-> store[k]]

\* the task types named in the routing text, in the order they are tested;
\* all three when none is named
RoutedTypes(routing) ==
    LET named == SelectSeq(TaskTypes, LAMBDA t : t \in routing)
    IN IF named = <<>> THEN TaskTypes ELSE named

AgentInit ==
    /\ source_code = NoSource
    /\ AuditIdle
    /\ DetectIdle
    /\ ReasonIdle
    /\ BlockIdle
    /\ ScoreIdle
    /\ AdvancedIdle
    /\ PlanIdle
    /\ storage = [k \in {"aggregated"} |-> EmptyDict]
    /\ requests = {}
    /\ results = {}
    /\ routed = <<>>
    /\ user_inbox = <<>>
    /\ produced = {}

\* handle_user_query(ctx, sender, msg): the acknowledgement, the storage entry
\* of the new query and the task requests; a send that raises ends the routing
HandleUserQuery(routing, accepted) ==
    LET query_id == Uuid(Issued + 1)
        types == RoutedTypes(routing)
        sent == SubSeq(types, 1, accepted)
    IN /\ Cardinality(DOMAIN routed) < MaxQueries
       /\ accepted <= Len(types)
       /\ user_inbox' = Append(user_inbox, [to |-> UserAddress, kind |-> "acknowledgement",
                                            text |-> None])
       /\ storage' = Put(storage, AggregatedKey(query_id),
                         [k \in {"analysis", "simulation", "monitoring", "sender"} |->
                            IF k = "sender" THEN [address |-> UserAddress] ELSE None])
       /\ requests' = requests \cup
             {[to |-> AgentOf(sent[i]), type |-> sent[i], query_id |-> query_id] :
                 i \in 1..Len(sent)}
       /\ routed' = Put(routed, query_id, {sent[i] : i \in 1..Len(sent)})
       /\ UNCHANGED <<results, produced>>
       /\ UNCHANGED <<auditVars, detectVars, reasonVars, blockVars, scoreVars, advancedVars,
                      planVars>>

\* handle_task_req(ctx, sender, msg) of a worker: the result goes back to the
\* coordinator under the query id of the request, unless the send raises
HandleTaskReq(msg, sent) ==
    /\ msg \in requests
    /\ requests' = requests \ {msg}
    /\ results' =
          IF msg.type = TypeHandledBy(msg.to) /\ sent
          THEN results \cup {[sender |-> msg.to, result |-> msg.type, query_id |-> msg.query_id]}
          ELSE results
    /\ UNCHANGED <<storage, routed, user_inbox, produced>>
    /\ UNCHANGED <<auditVars, detectVars, reasonVars, blockVars, scoreVars, advancedVars,
                   planVars>>

\* handle_task_result(ctx, sender, msg): the result is recorded; when the
\* test of the results passes the summary is made, sent to the user of the
\* entry if it names one, and the entry is deleted
HandleTaskResult(msg, summarized, sent) ==
    LET aggregated_key == AggregatedKey(msg.query_id)
        aggregated == Recorded(StorageGet(aggregated_key), msg.sender, msg.result)
        stored == Put(storage, aggregated_key, aggregated)
        summary == IF summarized THEN [summary_of |-> aggregated] ELSE [error |-> TRUE]
        user_sender == IF "sender" \in DOMAIN aggregated THEN aggregated["sender"] ELSE None
    IN /\ msg \in results
       /\ results' = results \ {msg}
       /\ IF AllResultsIn(aggregated)
          THEN /\ user_inbox' =
                     IF user_sender # None /\ sent
                     THEN Append(user_inbox, [to |-> user_sender.address, kind |-> "summary",
                                              text |-> summary])
                     ELSE user_inbox
               /\ produced' = produced \cup
                     {[query_id |-> msg.query_id, aggregated |-> aggregated,
                       anomaly |-> msg.query_id \notin DOMAIN routed,
                       to_user |-> user_sender # None /\ sent]}
               /\ storage' = StorageDelete(stored, aggregated_key)
          ELSE /\ storage' = stored
               /\ UNCHANGED <<user_inbox, produced>>
       /\ UNCHANGED <<requests, routed>>
       /\ UNCHANGED <<auditVars, detectVars, reasonVars, blockVars, scoreVars, advancedVars,
                      planVars>>

\* monitor_logs(ctx) of the monitoring agent: an anomaly is reported to the
\* coordinator as a task result under an identifier of its own
ReportAnomaly ==
    /\ Anomalies < MaxAnomalies
    /\ results' = results \cup
          {[sender |-> AGENT3_ADDR, result |-> "anomaly",
            query_id |-> Uuid(MaxQueries + Anomalies + 1)]}
    /\ UNCHANGED <<storage, requests, routed, user_inbox, produced>>
    /\ UNCHANGED <<auditVars, detectVars, reasonVars, blockVars, scoreVars, advancedVars,
                   planVars>>

AgentNext ==
    \/ \E routing \in SUBSET {"analysis", "simulation", "monitoring"}, accepted \in 0..3 :
          HandleUserQuery(routing, accepted)
    \/ \E msg \in requests, sent \in BOOLEAN : HandleTaskReq(msg, sent)
    \/ \E msg \in results, summarized \in BOOLEAN, sent \in BOOLEAN :
          HandleTaskResult(msg, summarized, sent)
    \/ ReportAnomaly

AgentSpec == AgentInit /\ [][AgentNext]_vars

(***************************************************************************)
(* Properties of an audit run (Spec, FairSpec).                            *)
(***************************************************************************)
FiveDetectorKeys ==
    {"Reentrancy", "AccessControl", "IntegerOverflow", "ExternalCalls", "GasOptimization"}

RaisedDetectors == {d \in 1..Len(Detectors) : task[d].state = "raised"}
ReturnedDetectors == {d \in 1..Len(Detectors) : task[d].state = "returned"}

\* C1: whichever detectors raised, the criteria map of the report has exactly
\* the five detector keys, and the entry of a detector that raised is the
\* well-formed empty result: checks {}, issues [], code_fixes [].
C1_FiveEntries ==
    pc = "done" =>
        /\ DOMAIN report.criteria = FiveDetectorKeys
        /\ \A d \in RaisedDetectors :
            LET entry == report.criteria[Detectors[d]]
            IN  /\ DOMAIN entry = {"checks", "issues", "code_fixes"}
                /\ DOMAIN entry.checks = {}
                /\ entry.issues = <<>>
                /\ entry.code_fixes = <<>>

C1_Witness ==
    /\ pc = "done"
    /\ Cardinality(RaisedDetectors) = 2
    /\ Cardinality(ReturnedDetectors) = 3

\* C2: when a detector raises, the entry of every other detector is what that
\* detector returns on this source when nothing raises: its own analysis of
\* the source, under one of the oracle's answers.
C2_SiblingsUnaffected ==
    (pc = "done" /\ RaisedDetectors # {}) =>
        \A e \in ReturnedDetectors :
            \E answer \in OracleAnswers :
                report.criteria[Detectors[e]] = Analyze(e, source_code, answer)

C2_Witness ==
    /\ pc = "done"
    /\ Cardinality(RaisedDetectors) = 1
    /\ \E e \in ReturnedDetectors : report.criteria[Detectors[e]].issues # <<>>

OwnOutcome(d) == IF task[d].state = "raised" THEN EmptyResult ELSE task[d].value

ReportInOrder(order) ==
    LET findings == AllFindings(HandleFailures(GatherResults(task, order)))
    IN  BuildReport(findings, ReasonAboutFindings(findings, "ok"))

\* C4: for a fixed source and fixed detector outcomes the report is the one of
\* the run in which the tasks complete in the order they were created,
\* whatever the order they completed in, and each key holds the outcome of
\* its own detector.
C4_OrderIndependent ==
    pc = "done" =>
        /\ report = ReportInOrder(<<1, 2, 3, 4, 5>>)
        /\ \A d \in 1..Len(Detectors) : report.criteria[Detectors[d]] = OwnOutcome(d)

C4_Witness ==
    /\ pc = "done"
    /\ completed = <<5, 4, 3, 2, 1>>
    /\ RaisedDetectors = {2}
    /\ report.criteria["Reentrancy"] # report.criteria["GasOptimization"]

ChecksIn(key) == Cardinality(DOMAIN report.criteria[key].checks)

\* C5: summary.total_checks is the sum, over the five entries of the criteria
\* map (the empty entries of failed detectors included), of the size of the
\* entry's checks map.
C5_TotalChecks ==
    pc = "done" =>
        report.summary.total_checks =
            ChecksIn("Reentrancy") + ChecksIn("AccessControl") + ChecksIn("IntegerOverflow")
            + ChecksIn("ExternalCalls") + ChecksIn("GasOptimization")

C5_Witness ==
    /\ pc = "done"
    /\ RaisedDetectors # {}
    /\ report.summary.total_checks > 0
    /\ report.summary.total_checks > report.summary.passed_checks

Findings(result) ==
    [checks |-> result.checks, issues |-> result.issues, code_fixes |-> result.code_fixes]

RuleOnlyFindings ==
    [k \in FiveDetectorKeys |->
        LET d == CHOOSE i \in 1..Len(Detectors) : Detectors[i] = k
        IN  IF task[d].state = "raised" THEN EmptyResult
            ELSE Findings(Analyze(d, source_code, "ok"))]

RuleOnlyReport(findings) == BuildReport(findings, ReasonAboutFindings(findings, "ok"))

Deterministic(r) ==
    [summary |-> r.summary, risk_score |-> r.risk_score,
     recommendations |-> r.recommendations, metta_insights |-> r.metta_insights]

\* C7: the checks, findings and fixes of every detector, the summary, the
\* risk score, the recommendations and the insights (the compound-risk
\* insight among them) of a run are those of the run on the same source, with
\* the same detectors raising, in which every oracle query succeeds.
C7_OracleChangesNothing ==
    pc = "done" =>
        LET rule_only == RuleOnlyFindings
        IN  /\ [k \in FiveDetectorKeys |-> Findings(report.criteria[k])] = rule_only
            /\ Deterministic(report) = Deterministic(RuleOnlyReport(rule_only))

C7_Witness ==
    /\ pc = "done"
    /\ ~contract_analysis.metta_analysis.success
    /\ \E d \in ReturnedDetectors :
        /\ ~task[d].value.metta_reasoning.success
        /\ task[d].value.issues # <<>>
    /\ \E d \in ReturnedDetectors : task[d].value.metta_reasoning.success
    /\ report.risk_score > 0

\* C8: once an oracle query of an audit never answers, the audit still
\* eventually returns its report.
C8_SilentOracleStillCompletes == (pc = "blocked") ~> (pc = "done")

\* C9: the findings are keyed, reasoned about and summarised only once each
\* of the five detector tasks has returned or raised; no task is running.
C9_AggregationAfterAllTasks ==
    (pc \in {"reason", "done"} \/ all_findings # None \/ report # None) =>
        \A d \in 1..Len(Detectors) : task[d].state \in {"returned", "raised"}

C9_Witness ==
    /\ pc = "reason"
    /\ RaisedDetectors # {}
    /\ ReturnedDetectors # {}
    /\ all_findings # None

(***************************************************************************)
(* Properties of the compound detection (ReasonSpec).                      *)
(***************************************************************************)
Emitted(combo) ==
    Cardinality({k \in 1..Len(compound_vulns) : compound_vulns[k] = combo})

BothPresent(combo) ==
    \A n \in 1..Len(combo.types) :
        \E k \in 1..Len(vulnerabilities) : vulnerabilities[k].type = combo.types[n]

\* C6: for every finding list and every entry of the dangerous-pair table,
\* the entry is emitted exactly when both its categories occur among the
\* findings' types, and then once; nothing else is emitted; reordering the
\* findings or duplicating one of them leaves the outcome as it was.
C6_CompoundIsConjunction ==
    /\ \A c \in 1..Len(DangerousCombinations) :
        Emitted(DangerousCombinations[c])
            = IF BothPresent(DangerousCombinations[c]) THEN 1 ELSE 0
    /\ \A k \in 1..Len(compound_vulns) :
        \E c \in 1..Len(DangerousCombinations) : compound_vulns[k] = DangerousCombinations[c]
    /\ last_change \in {"reorder", "duplicate"} => compound_vulns = previous_compound

C6_Witness ==
    /\ last_change = "duplicate"
    /\ Len(compound_vulns) = 1
    /\ Len(vulnerabilities) = 3

(***************************************************************************)
(* Properties of one detector (DetectSpec).                                *)
(***************************************************************************)
\* C10: the check names of a detector's result are the same for every source
\* (those it reports for the empty source) and every oracle answer, and a
\* second run on the same source gives the same check names and the same
\* finding list as the first.
C10_FixedCheckNames ==
    detector # 0 =>
        /\ DOMAIN first_run.checks = DOMAIN Analyze(detector, SrcEmpty, "ok").checks
        /\ second_run # None =>
            /\ DOMAIN second_run.checks = DOMAIN first_run.checks
            /\ second_run.issues = first_run.issues

C10_Witness ==
    /\ detector = 3
    /\ second_run # None
    /\ first_run.issues # <<>>
    /\ first_run.metta_reasoning # second_run.metta_reasoning
    /\ \E c \in DOMAIN first_run.checks : ~first_run.checks[c]

\* ---- the block extractors
\* the brace depth after line i, counted from the start line
RECURSIVE DepthAfter(_, _, _)
DepthAfter(lines, start, i) ==
    IF i < start THEN 0
    ELSE DepthAfter(lines, start, i - 1) + CountOpen(lines[i]) - CountClose(lines[i])

\* the lines at which the depth is back at zero
ClosingLines(lines, start) ==
    {i \in start..Len(lines) : DepthAfter(lines, start, i) = 0}

FirstClosingLine(lines, start) ==
    CHOOSE i \in ClosingLines(lines, start) :
        \A j \in ClosingLines(lines, start) : i <= j

\* C11: each block extractor, started on a line that opens a brace, returns
\* the lines from the start line to the first line at which the brace depth
\* is back at zero, for single-line, multi-line and nested blocks alike
C11_ExtractEndsAtDepthZero ==
    (extracted # None /\ ClosingLines(source_code, start_line) # {})
        => extracted.text = SubSeq(source_code, start_line,
                                   FirstClosingLine(source_code, start_line))


\* C12: the risk score of a finding list to which one finding has been added
\* is at least the risk score of the list before, whatever the severity of
\* the finding and also when the score is at its ceiling
C12_ScoreNeverDecreases ==
    /\ risk_score = CalculateRiskScore(vulnerabilities)
    /\ risk_score >= previous_score

\* a finding was added that lifted the score to the ceiling
C12_Witness ==
    /\ Len(vulnerabilities) > 0
    /\ previous_score < risk_score
    /\ risk_score = MaxRiskTenths

\* ---- the pipeline from source to advanced reasoning
HasIssue(key, title) ==
    \E i \in 1..Len(all_findings[key].issues) : all_findings[key].issues[i].title = title

\* C13: when the source yields a reentrancy finding and an unprotected-function
\* finding for withdraw, the reasoner run on the flattened and categorized
\* findings emits the critical compound record 'Reentrancy with Weak Access
\* Control' with multiplier 3.0, and the overall business impact is HIGH or
\* CRITICAL
C13_CompoundFromSource ==
    (/\ business_impact # "none"
     /\ HasIssue("Reentrancy", "Reentrancy Vulnerability Detected")
     /\ HasIssue("AccessControl", UnprotectedTitle("withdraw")))
        => /\ \E k \in 1..Len(compound_vulns) :
                /\ compound_vulns[k].name = "Reentrancy with Weak Access Control"
                /\ compound_vulns[k].severity = "critical"
                /\ compound_vulns[k].risk_multiplier = 30
           /\ business_impact \in {"HIGH", "CRITICAL"}

\* ---- the reentrancy detector on a compound-assignment write
\* the lines with an external call of the form x.call{value: ...}(...)
CallWithValue == {"token.call{value: amount}(data);",
 "(bool ok, ) = token.call{value: amount}(data);"}

\* the call lines that are followed two lines later by 'balance -= amount;'
CallsBeforeCompoundWrite(lines) ==
    {i \in 1..Len(lines) :
        /\ lines[i] \in CallWithValue
        /\ i + 2 <= Len(lines)
        /\ lines[i + 2] = "balance -= amount;"}

\* C14: for a source in which a call line x.call{value: ...}(...) is followed
\* two lines later by the state write 'balance -= amount;' and no
\* nonReentrant or ReentrancyGuard token occurs, the reentrancy detector sets
\* no_state_after_call to false and emits a high finding located at the call
\* line
C14_CompoundWriteAfterCall ==
    (/\ detector = 1
     /\ first_run # None
     /\ ~AnyLine(source_code, ReGuard))
        => \A i \in CallsBeforeCompoundWrite(source_code) :
                /\ first_run.checks["no_state_after_call"] = FALSE
                /\ \E k \in 1..Len(first_run.issues) :
                        /\ first_run.issues[k].severity = "high"
                        /\ first_run.issues[k].line = i

\* ---- the summary's severity counts
\* the number of findings in the map
TotalIssues(findings) ==
    SumOver(DOMAIN findings, [k \in DOMAIN findings |-> Len(findings[k].issues)])

SamePair(interaction, compound) ==
    /\ {interaction.vulnerabilities[1], interaction.vulnerabilities[2]}
            = {compound.types[1], compound.types[2]}
    /\ interaction.severity = compound.severity
    /\ interaction.amplification_factor = compound.risk_multiplier

\* C16: for every finding list, interaction analysis emits a record for a
\* category pair exactly when compound detection emits one for that pair,
\* with the same severity and the same multiplier
C16_SameDangerousPairs ==
    last_change # "none"
        => /\ \A k \in 1..Len(compound_vulns) :
                \E j \in 1..Len(interactions) : SamePair(interactions[j], compound_vulns[k])
           /\ \A j \in 1..Len(interactions) :
                \E k \in 1..Len(compound_vulns) : SamePair(interactions[j], compound_vulns[k])

\* ---- categorization by title
\* the keyword groups in the order in which they are tested
KeywordOrder ==
    <<[keywords |-> {"reentrancy"}, category |-> "reentrancy"],
      [keywords |-> {"access", "authorization"}, category |-> "access-control"],
      [keywords |-> {"overflow", "underflow"}, category |-> "integer-overflow"],
      [keywords |-> {"call"}, category |-> "external-call"],
      [keywords |-> {"gas"}, category |-> "gas-optimization"]>>

\* the groups of which the title contains a keyword
GroupsIn(title) ==
    {g \in 1..Len(KeywordOrder) : KeywordOrder[g].keywords \cap TitleKeywords(title) # {}}

FirstKeywordCategory(title) ==
    IF GroupsIn(title) = {} THEN "other"
    ELSE KeywordOrder[CHOOSE g \in GroupsIn(title) : \A h \in GroupsIn(title) : g <= h].category

\* C17: the category of a finding is a function of its title alone: the
\* keyword groups are tested in the fixed order reentrancy; access or
\* authorization; overflow or underflow; call; gas; the first group of which
\* the title contains a keyword decides, and a title containing none is
\* categorized 'other'
C17_FirstKeywordDecides ==
    \A k \in 1..Len(vulnerabilities) :
        "title" \in DOMAIN vulnerabilities[k]
            => vulnerabilities[k].type = FirstKeywordCategory(vulnerabilities[k].title)

\* a title holding 'call' and 'gas' has been categorized
C17_Witness ==
    \E k \in 1..Len(vulnerabilities) :
        /\ "title" \in DOMAIN vulnerabilities[k]
        /\ {"call", "gas"} \subseteq TitleKeywords(vulnerabilities[k].title)
        /\ vulnerabilities[k].type = "external-call"

\* ---- categorization against the emitting detector
\* the category named after each detector
OwnCategory(agent) ==
    CASE agent = "Reentrancy" -> "reentrancy"
      [] agent = "AccessControl" -> "access-control"
      [] agent = "IntegerOverflow" -> "integer-overflow"
      [] agent = "ExternalCalls" -> "external-call"
      [] agent = "GasOptimization" -> "gas-optimization"

\* C18: for every finding a detector emits, the categorization by title
\* yields that detector's own category or 'other', never the category of
\* another detector; no finding of the gas-optimization detector is
\* categorized external-call, so no dangerous pair is completed by a gas
\* finding
C18_CategoryOfOwnDetector ==
    business_impact # "none"
        => /\ \A k \in 1..Len(vulnerabilities) :
                vulnerabilities[k].type \in {OwnCategory(vulnerabilities[k].agent), "other"}
           /\ \A c \in 1..Len(compound_vulns), n \in 1..2 :
                \E k \in 1..Len(vulnerabilities) :
                    /\ vulnerabilities[k].type = compound_vulns[c].types[n]
                    /\ vulnerabilities[k].agent # "GasOptimization"

\* ---- risk level and exploit probability
SeverityLevels == {"critical", "high", "medium", "low", "info"}

\* the weights Critical 10, High 7, Medium 4, Low 2, Info 1
LevelWeight(severity) ==
    CASE severity = "critical" -> 10
      [] severity = "high" -> 7
      [] severity = "medium" -> 4
      [] severity = "low" -> 2
      [] severity = "info" -> 1

\* EXTREME from 7, HIGH from 5, MODERATE from 3, LOW below, on
\* probability times weight
LevelOf(probability, severity) ==
    LET product == probability * LevelWeight(severity)
    IN  IF product >= 7 * ProbabilityOne THEN "EXTREME"
        ELSE IF product >= 5 * ProbabilityOne THEN "HIGH"
        ELSE IF product >= 3 * ProbabilityOne THEN "MODERATE"
        ELSE "LOW"

\* C19: the risk level of a finding is the level of probability times
\* severity weight, with the weights Critical 10, High 7, Medium 4, Low 2,
\* Info 1: EXTREME when the product is at least 7, HIGH when at least 5,
\* MODERATE when at least 3 and LOW otherwise, for every severity level,
\* Info included
C19_RiskLevelFromWeights ==
    \A k \in 1..Len(exploit_probabilities) :
        exploit_probabilities[k].severity \in SeverityLevels
            => exploit_probabilities[k].risk_level
                = LevelOf(ExploitProbability(vulnerabilities[k], contract_metadata),
                          exploit_probabilities[k].severity)

\* an info finding of probability 1.0 has been given its level
C19_Witness ==
    \E k \in 1..Len(exploit_probabilities) :
        /\ exploit_probabilities[k].severity = "info"
        /\ ExploitProbability(vulnerabilities[k], contract_metadata) = ProbabilityOne
        /\ exploit_probabilities[k].risk_level = "LOW"

\* the capped product of the base probability and the three factors
CappedProduct(e, vuln, metadata) ==
    Min(e.base_probability
            * (IF DescriptionOf(vuln) \in MentionsComplexAttack THEN 6 ELSE 10)
            * (IF metadata.is_verified THEN 9 ELSE 10)
            * (IF metadata.holds_funds THEN 12 ELSE 10),
        ProbabilityOne)

BaseTableTypes ==
    {"reentrancy", "access-control", "integer-overflow", "external-call",
     "front-running", "timestamp", "dos", "gas-optimization"}

NumberOfSeverity(list, sev) ==
    Cardinality({k \in 1..Len(list) : "severity" \in DOMAIN list[k] /\ list[k].severity = sev})

HasDos(list) == \E k \in 1..Len(list) : list[k].type = "dos"

\* the level of four sub-scores: the average against 8, 6 and 4
ImpactLevel(f, r, o, l) ==
    IF f + r + o + l >= 32 THEN "CRITICAL"
    ELSE IF f + r + o + l >= 24 THEN "HIGH"
    ELSE IF f + r + o + l >= 16 THEN "MEDIUM"
    ELSE "LOW"

\* C21: for every finding list the business-impact sub-scores are
\* financial = min(3 * critical_count + 2 * high_count, 10), reputational = 9
\* if any finding is critical else 5, operational = 8 if a denial-of-service
\* finding is present else 4, legal = min(2 * critical_count, 10); each lies
\* in 0..10, and the overall impact is CRITICAL when their average is at
\* least 8, HIGH when at least 6, MEDIUM when at least 4 and LOW otherwise
C21_BusinessImpactScores ==
    impact # None =>
        LET critical_count == NumberOfSeverity(vulnerabilities, "critical")
            high_count == NumberOfSeverity(vulnerabilities, "high")
        IN  /\ impact.financial = Min(3 * critical_count + 2 * high_count, 10)
            /\ impact.reputational = (IF critical_count > 0 THEN 9 ELSE 5)
            /\ impact.operational = (IF HasDos(vulnerabilities) THEN 8 ELSE 4)
            /\ impact.legal = Min(2 * critical_count, 10)
            /\ \A score \in {impact.financial, impact.reputational,
                             impact.operational, impact.legal} : score \in 0..10
            /\ impact.overall_impact
                = ImpactLevel(impact.financial, impact.reputational,
                              impact.operational, impact.legal)

\* a list whose financial and legal scores are both held at the cap of 10
\* has been assessed, with a denial-of-service finding in it
C21_Witness ==
    /\ impact # None
    /\ NumberOfSeverity(vulnerabilities, "critical") > 5
    /\ HasDos(vulnerabilities)
    /\ impact.financial = 10 /\ impact.legal = 10
    /\ impact.overall_impact = "CRITICAL"

\* the priorities of the items of a plan, in the order of the list
Priorities(plan) ==
    [k \in 1..Len(plan.recommended_order) |-> plan.recommended_order[k].priority]

\* the tiers in their order, with the severity each one stands for
TierOrder ==
    <<[priority |-> "IMMEDIATE", severity |-> "critical"],
      [priority |-> "URGENT", severity |-> "high"],
      [priority |-> "MEDIUM", severity |-> "medium"],
      [priority |-> "LOW", severity |-> "low"]>>

\* the tiers a finding list calls for, in the tier order
TiersCalledFor(list) ==
    LET present == SelectSeq(TierOrder, LAMBDA t : NumberOfSeverity(list, t.severity) > 0)
    IN  [k \in 1..Len(present) |-> present[k].priority]

\* C22: in the action plan's recommended_order the tiers appear in the
\* order IMMEDIATE, URGENT, MEDIUM, LOW, a tier being present exactly when
\* at least one finding has the matching severity; when at least one
\* compound vulnerability was detected a single CRITICAL item is the first
\* element of the list, otherwise no CRITICAL item is present;
\* total_actions equals the length of the list
C22_PlanOrder ==
    action_plan # None =>
        LET order == Priorities(action_plan)
            tiers == SelectSeq(order, LAMBDA p : p # "CRITICAL")
            criticals == {k \in 1..Len(order) : order[k] = "CRITICAL"}
        IN  /\ tiers = TiersCalledFor(vulnerabilities)
            /\ criticals = (IF compound_vulns # <<>> THEN {1} ELSE {})
            /\ action_plan.total_actions = Len(action_plan.recommended_order)

\* a plan has been made for a list with a compound vulnerability and with
\* critical, high and low findings, and none of medium severity
C22_Witness ==
    /\ action_plan # None
    /\ compound_vulns # <<>>
    /\ Priorities(action_plan) = <<"CRITICAL", "IMMEDIATE", "URGENT", "LOW">>
    /\ action_plan.total_actions = 4

\* the four severities the estimate table names
EstimatedSeverities == {"critical", "high", "medium", "low"}

\* the sum of the per-finding estimates in quarters of a day: 2 days per
\* critical, 1 per high, 0.5 per medium and 0.25 per low finding; half a
\* day for a finding of another severity and a quarter for one without
QuarterDays(list) ==
    8 * NumberOfSeverity(list, "critical") + 4 * NumberOfSeverity(list, "high")
        + 2 * NumberOfSeverity(list, "medium") + NumberOfSeverity(list, "low")
        + 2 * Cardinality({k \in 1..Len(list) : /\ "severity" \in DOMAIN list[k]
                                                /\ list[k].severity \notin EstimatedSeverities})
        + Cardinality({k \in 1..Len(list) : "severity" \notin DOMAIN list[k]})

\* the unit the total is reported in
UnitOf(quarters) ==
    IF quarters < 4 THEN "hours" ELSE IF quarters < 28 THEN "days" ELSE "weeks"

\* the quarters of a day in one unit, doubled so that the hour is whole
DoubledQuartersIn(unit) ==
    CASE unit = "hours" -> 1 [] unit = "days" -> 8 [] unit = "weeks" -> 56

\* C23 as stated: the estimated fix time is the sum over all findings of 2
\* days per critical, 1 per high, 0.5 per medium and 0.25 per low finding,
\* reported in hours when the total is below 1 day, in days when it is below
\* 7 days and in weeks otherwise; a list without findings yields a zero
\* estimate
C23_EstimateIsTheSum ==
    (/\ action_plan # None
     /\ \A k \in 1..Len(vulnerabilities) :
            /\ "severity" \in DOMAIN vulnerabilities[k]
            /\ vulnerabilities[k].severity \in EstimatedSeverities)
        => LET total == QuarterDays(vulnerabilities)
               estimate == action_plan.estimated_time
           IN  /\ estimate.unit = UnitOf(total)
               /\ estimate.amount * DoubledQuartersIn(estimate.unit) = 2 * total

\* C23 amended: the total is the sum over all findings of 2 days per
\* critical, 1 per high, 0.5 per medium and 0.25 per low finding, with 0.5
\* for a finding of any other severity and 0.25 for a finding without one;
\* it is reported in hours when below 1 day, in days when below 7 days and
\* in weeks otherwise, as a whole number with the fraction of the unit
\* dropped; a list without findings yields 0 hours
C23_EstimateIsTheWholePart ==
    action_plan # None =>
        LET total == QuarterDays(vulnerabilities)
            estimate == action_plan.estimated_time
        IN  /\ estimate.unit = UnitOf(total)
            /\ estimate.amount = (2 * total) \div DoubledQuartersIn(estimate.unit)
            /\ vulnerabilities = <<>> => estimate = [amount |-> 0, unit |-> "hours"]

\* a list of a day and a half of work has been estimated at one day
C23_Witness ==
    /\ action_plan # None
    /\ QuarterDays(vulnerabilities) = 6
    /\ action_plan.estimated_time = [amount |-> 1, unit |-> "days"]

\* the ceiling of each extractor
CeilingOf(extractor) ==
    CASE extractor = "_extract_function" -> 50
      [] extractor = "_extract_block" -> 20
      [] extractor = "_extract_function_body" -> 100

\* the depth after each line from the start line on, as a sequence
RECURSIVE DepthsFrom(_, _, _)
DepthsFrom(lines, i, depth) ==
    IF i > Len(lines) THEN <<>>
    ELSE LET now == depth + CountOpen(lines[i]) - CountClose(lines[i])
         IN  <<now>> \o DepthsFrom(lines, i + 1, now)

\* the brace opened at the start line is never closed
NeverClosed(lines, start) ==
    LET depths == DepthsFrom(lines, start, 0)
    IN  \A k \in 1..Len(depths) : depths[k] > 0

\* C24: on input in which the brace opened at the start line is never
\* closed, each block extractor terminates and returns at most its fixed
\* ceiling of lines (50 for access-control, 20 for integer-overflow, 100 for
\* gas-optimization) and never reads past the end of the source, whatever
\* the start index
C24_ExtractKeepsToCeiling ==
    (extracted # None /\ NeverClosed(source_code, start_line))
        => LET n == Len(extracted.text)
           IN  /\ n <= CeilingOf(extracted.extractor)
               /\ start_line + n - 1 <= Len(source_code)
               /\ extracted.text = SubSeq(source_code, start_line, start_line + n - 1)

\* the function-body extractor has returned exactly its ceiling of 100
\* lines from a source with more lines than that after the start line
C24_Witness ==
    /\ extracted # None
    /\ NeverClosed(source_code, start_line)
    /\ Len(source_code) - start_line + 1 > CeilingOf(extracted.extractor)
    /\ Len(extracted.text) = CeilingOf(extracted.extractor)
    /\ extracted.extractor = "_extract_function_body"

\* ---- the access-control detector
\* the keywords the claim marks critical
CriticalKeywords ==
    {"withdraw", "transferOwnership", "pause", "unpause", "mint", "setAdmin",
     "emergencyWithdraw"}

\* the privileged functions of the source that have no authorization
\* modifier on their line or the next two: the line and the keyword of each
UnauthorizedFunctions(lines) ==
    UNION {{<<i, PrivilegedKeywordsOf(lines[i])[n]>> :
                n \in 1..Len(PrivilegedKeywordsOf(lines[i]))} :
            i \in {j \in 1..Len(lines) :
                        \A m \in j..Min(j + 2, Len(lines)) : lines[m] \notin ReAuthModifier}}

\* C25: the access-control detector emits, for each function whose name
\* matches a privileged keyword and that has no authorization modifier on
\* its line or the next two lines, one finding whose severity is critical
\* for the keywords marked critical and medium for the others; any use of
\* tx.origin yields one high finding
C25_SeverityByKeyword ==
    (detector = 2 /\ first_run # None) =>
        LET issues == first_run.issues
            unprotected == {k \in 1..Len(issues) : issues[k].title # "Dangerous use of tx.origin"}
            origin == {k \in 1..Len(issues) : issues[k].title = "Dangerous use of tx.origin"}
        IN  /\ \A f \in UnauthorizedFunctions(source_code) :
                \E k \in unprotected :
                    /\ issues[k].line = f[1]
                    /\ issues[k].title = UnprotectedTitle(f[2])
                    /\ issues[k].severity
                        = (IF f[2] \in CriticalKeywords THEN "critical" ELSE "medium")
            /\ Cardinality(unprotected) = Cardinality(UnauthorizedFunctions(source_code))
            /\ AnyLine(source_code, ReTxOrigin)
                => Cardinality(origin) = 1 /\ \A k \in origin : issues[k].severity = "high"
            /\ ~AnyLine(source_code, ReTxOrigin) => origin = {}

\* ---- the unchecked blocks of the integer-overflow detector
\* the lines that hold one of the keywords balance, amount, user, input
UnsafeKeywordLines == {"unchecked { balance += amount; }",
 "unchecked { balance += amount; ++i; }",
 "emit Paid(amount);"}

\* the lines that hold a compensating safe pattern: an increment
SafePatternLines == {"unchecked { ++i; }", "unchecked { balance += amount; ++i; }", "++i;"}

\* the lines of the block opened at line i, to its closing brace
BodyOf(lines, i) == SubSeq(lines, i, FirstClosingLine(lines, i))

HasUncheckedFinding(result, i) ==
    \E k \in 1..Len(result.issues) :
        /\ result.issues[k].title = "Potentially Unsafe Unchecked Block"
        /\ result.issues[k].severity = "medium"
        /\ result.issues[k].line = i

\* C26: the integer-overflow detector emits a medium unchecked-block finding
\* for an unchecked block exactly when the block's body contains an unsafe
\* keyword (balance, amount, user, input) and contains no compensating safe
\* pattern; a block with no unsafe keyword yields no finding, and text
\* outside the block's braces does not influence the decision
C26_UnsafeKeywordDecides ==
    (detector = 3 /\ first_run # None) =>
        \A i \in 1..Len(source_code) :
            (source_code[i] \in ReUncheckedOpen /\ ClosingLines(source_code, i) # {})
                => (HasUncheckedFinding(first_run, i)
                        <=> /\ AnyLine(BodyOf(source_code, i), UnsafeKeywordLines)
                            /\ ~AnyLine(BodyOf(source_code, i), SafePatternLines))

\* ---- the detectors on empty source text
\* C27: on empty source text every detector returns a result without
\* raising, with no findings and no fixes and with every one of its checks
\* false; an audit of empty source therefore reports passed_checks = 0
C27_EmptySourcePassesNothing ==
    (source_code = SrcEmpty /\ all_findings # None) =>
        /\ \A k \in CriteriaKeys :
                /\ all_findings[k].issues = <<>>
                /\ all_findings[k].code_fixes = <<>>
                /\ \A c \in DOMAIN all_findings[k].checks : ~all_findings[k].checks[c]
        /\ CalculateSummary(all_findings).passed_checks = 0

\* ---- the checks that guard the integer-overflow findings
HasTitle(result, title) ==
    \E k \in 1..Len(result.issues) : result.issues[k].title = title

\* C28: in every result of the integer-overflow detector a finding is
\* emitted only when the check guarding its class is false: an unchecked-block
\* finding implies appropriate_unchecked_usage = false, an overflow finding
\* implies arithmetic_operations_safe = false, and a precision-loss finding
\* implies no_precision_loss = false
C28_FindingImpliesFailedCheck ==
    (detector = 3 /\ first_run # None) =>
        /\ HasTitle(first_run, "Potentially Unsafe Unchecked Block") => ~first_run.checks.appropriate_unchecked_usage
        /\ HasTitle(first_run, "Integer Overflow/Underflow Risk") => ~first_run.checks.arithmetic_operations_safe
        /\ HasTitle(first_run, "Precision Loss: Division Before Multiplication") => ~first_run.checks.no_precision_loss

\* ---- the number of checks of a report
\* the number of checks of each detector, in the order of the detectors
OwnChecks == <<4, 5, 5, 5, 5>>

RECURSIVE ChecksOf(_)
ChecksOf(failed) ==
    IF failed = {} THEN 0
    ELSE LET d == CHOOSE x \in failed : TRUE
         IN  OwnChecks[d] + ChecksOf(failed \ {d})

\* C29: when no detector fails, summary.total_checks is the same for every
\* source, 24 (4 reentrancy, 5 access-control, 5 integer-overflow,
\* 5 external-calls and 5 gas-optimization checks); each failed detector
\* lowers total_checks by exactly its own number of checks; and
\* 0 <= passed_checks <= total_checks holds in every report
C29_TotalChecksByFailures ==
    pc = "done" =>
        /\ report.summary.total_checks = 24 - ChecksOf(RaisedDetectors)
        /\ 0 <= report.summary.passed_checks
        /\ report.summary.passed_checks <= report.summary.total_checks

\* a report was made after the reentrancy and the gas-optimization
\* detectors failed, with 15 checks of which some passed
C29_Witness ==
    /\ pc = "done"
    /\ RaisedDetectors = {1, 5}
    /\ report.summary.total_checks = 15
    /\ report.summary.passed_checks > 0

\* the summaries of a query that were sent to the user
SummariesSent(query_id) == {p \in produced : p.query_id = query_id /\ p.to_user}

\* a summary goes to the user only with a result recorded for every agent
\* the query was routed to
SummaryHasEveryResult ==
    \A query_id \in DOMAIN routed : \A p \in SummariesSent(query_id) :
        \A type \in routed[query_id] :
            type \in DOMAIN p.aggregated /\ p.aggregated[type] # None

\* the user receives at most one summary for a query
AtMostOneSummary ==
    \A query_id \in DOMAIN routed : Cardinality(SummariesSent(query_id)) <= 1

\* the storage entry of a query is gone only once a summary was produced
DeletedAfterSummary ==
    \A query_id \in DOMAIN routed :
        AggregatedKey(query_id) \notin DOMAIN storage
            => \E p \in produced : p.query_id = query_id

\* C30: for every query of the coordinator agent, in every order in which the
\* task results arrive, the summary is sent to the user only after a result
\* has been recorded for every agent the query was routed to, the user gets
\* at most one summary for the query, and the storage entry of the query is
\* deleted only once the summary has been produced.
C30_SummaryAfterAllResults ==
    /\ SummaryHasEveryResult
    /\ AtMostOneSummary
    /\ DeletedAfterSummary

====
